---- MODULE Spec2Model ----
(***************************************************************************)
(* A model of PyXenaValkyrie's transport (xenavalkyrie/api/BaseSocket.py)  *)
(* and of the port's stream bookkeeping (xenavalkyrie/xena_port.py).       *)
(*                                                                         *)
(* SpecSocket drives one BaseSocket object through its methods, with the   *)
(* operating system's socket as the environment: every connect, send and   *)
(* recv may succeed or raise, and recv may deliver any chunk of Chunks.    *)
(* readReply is modelled statement by statement (pc is the position inside *)
(* it); while it runs no other method of the object can start, as the      *)
(* library is single threaded.                                             *)
(*                                                                         *)
(* SpecPort drives one XenaPort through add_stream, remove_stream, reset   *)
(* and the streams property against a device that holds streams.  A round  *)
(* trip of the streams property, a command of add_stream and p_reset may   *)
(* raise, which leaves the operation where it was.  created and found      *)
(* record which tpld ids add_stream gave the device and which the port     *)
(* read from it.                                                           *)
(*                                                                         *)
(* SpecHier adds the port's other children: filters, trackers (tplds), the *)
(* capture and its packets, with a device whose lists others may change.   *)
(* calls and returned record what the last operation asked of the api and  *)
(* what it gave its caller.                                                *)
(*                                                                         *)
(* SpecWait follows one XenaObject.wait_for_states through its polls and   *)
(* sleeps (xenamanager/xena_object.py).  SpecCodec builds a command line   *)
(* with _build_index_command and parses a reply with _extract_return,      *)
(* with re.sub computed on code points.  SpecDump applies the text         *)
(* formatting of XenaCapture.get_packets to one raw packet, SpecExport     *)
(* runs get_packets in its three modes against a file system and the       *)
(* converter process (xenavalkyrie/xena_tshark.py), and SpecLoad runs      *)
(* XenaPort.load_config on a file of a few lines.                          *)
(*                                                                         *)
(* SpecIndex adds and deletes the streams and filters of one port, to see  *)
(* which index a new child is given.  SpecThreads lets several threads     *)
(* read the streams property of one port at once, the property split into  *)
(* its statements (tpc is each thread's position inside it).               *)
(***************************************************************************)
EXTENDS Integers, Sequences, FiniteSets, TLC

(* ------------------------------ bounds -------------------------------- *)

\* sockets one BaseSocket object may create in a run
MaxSockets == 3
\* command lines kept on the wire history
MaxWire == 2
\* streams one run creates with add_stream
MaxCreated == 3
\* p_reset commands the device may reject in one run
MaxFailures == 1
\* the largest timeout wait_for_states is called with, in seconds
MaxTimeout == 3
\* changes of the device that others make in one run
MaxDeviceChanges == 1
\* packets the device's capture buffer holds
MaxPackets == 2
\* threads that read the streams of one port
MaxThreads == 2
\* filters a port is given by add_filter
MaxFilters == 2
\* get_packets calls made on one capture
MaxExports == 2
\* lines of the longest configuration file loaded
MaxLines == 3
\* bytes of the longest packet formatted as text
MaxBytes == 50

(* --------------------------- program constants ------------------------ *)

\* BaseSocket.readReply: retries = 5
retries == 5

\* sock = None
None == 0

\* a recv() that raises
Fail == <<-1>>

\* b'---^' and b'^---'
MarkerA == <<45, 45, 45, 94>>
MarkerB == <<94, 45, 45, 45>>

\* The byte strings recv() may deliver: "OK", the first marker alone, the
\* second marker in the middle of a chunk, a near miss "--^", one byte that
\* is not UTF-8, and a two-byte character.
Chunks ==
    { <<79, 75>>, MarkerA, <<79, 94, 45, 45, 45, 75>>, <<45, 45, 94>>,
      <<255>>, <<195, 169>> }

\* The command texts (code points) a caller sends: "?" and "p" followed by U+00E9.
Commands == { <<63>>, <<112, 233>> }

(* ------------------------------ state --------------------------------- *)

VARIABLES
    connected,   \* BaseSocket.connected
    sock,        \* BaseSocket.sock: None or the id of the socket object
    nsock,       \* socket objects created so far (ids 1..nsock)
    okSocks,     \* ids of the sockets whose connect() succeeded
    closes,      \* closes[s]: times close() was called on socket s
    wire,        \* byte strings handed to sock.send that were written
    deleted,     \* __del__ has run
    pc,          \* position inside readReply: idle, recv, recv2, decode
    i,           \* readReply's loop variable
    reply,       \* readReply's local variable reply
    trace,       \* outcomes of the recv() calls of the current readReply
    result       \* what the last method call gave its caller

sockVars == <<connected, sock, nsock, okSocks, closes, wire, deleted, pc, i,
              reply, trace, result>>

VARIABLES
    next_tpld_id, \* XenaStream.next_tpld_id (class attribute)
    objects,      \* XenaPort.objects: the keys <<type, id>> of the children
    dev_streams,  \* the device: stream index -> that stream's ps_tpldid
    created,      \* the tpld ids add_stream gave the device, in order
    found,        \* the ps_tpldid values read from discovered streams
    failures,     \* round trips that raised so far
    presult       \* what the last port operation gave its caller

portVars == <<next_tpld_id, objects, dev_streams, created, found,
              failures, presult>>

VARIABLES
    calls,          \* the calls the last port operation made to the api
    returned        \* the children the last operation returned, by id

callVars == <<calls, returned>>

VARIABLES
    parent_objects, \* the objects of the port's parent (module or chassis)
    cap_objects,    \* XenaCapture.objects of the port's capture
    dev_filters,    \* the device: the indices PF_INDICES reports
    dev_tplds,      \* the device: the ids pr_tplds reports
    dev_packets,    \* the device: the packets count pc_stats reports
    changes         \* changes of the device made by others so far

hierVars == <<parent_objects, cap_objects, dev_filters, dev_tplds,
              dev_packets, changes>>

VARIABLES
    wpc,       \* position inside wait_for_states: idle, poll, sleep, raise
    timeout,   \* wait_for_states' argument timeout
    states,    \* wait_for_states' argument *states
    round,     \* iterations of wait_for_states' loop that are over
    observed,  \* what get_attribute returned to the current wait_for_states
    sleeps,    \* time.sleep(1) calls of the current wait_for_states
    wresult    \* what the last wait_for_states gave its caller

waitVars == <<wpc, timeout, states, round, observed, sleeps, wresult>>

VARIABLES
    codec_pc,            \* start, built, replied, extracted
    variant,             \* "XenaObject" or "XenaObject21"
    obj_index,           \* self.index of the object
    command,             \* the command argument
    arguments,           \* the *arguments argument
    index_command,       \* what _build_index_command returned
    index_command_value, \* the reply line given to _extract_return
    echoed,              \* the reply is the device's upper-cased echo
    extracted            \* what _extract_return returned

codecVars == <<codec_pc, variant, obj_index, command, arguments,
               index_command, index_command_value, echoed, extracted>>

VARIABLES
    dump_pc,     \* start, done
    raw_packet,  \* one element of get_packets' raw_packets: hex digits
    text_packet  \* the text get_packets makes of it

dumpVars == <<dump_pc, raw_packet, text_packet>>

VARIABLES
    gp_pc,     \* the last get_packets: idle (none yet), returned, raised
    gp_args,   \* its arguments
    gp_value,  \* what it returned, or the error it raised
    fetched,   \* the packet indices whose pc_packet it read, in order
    files,     \* the file system: name -> contents
    effects,   \* its file and converter operations, in order
    exports    \* get_packets calls made so far

exportVars == <<gp_pc, gp_args, gp_value, fetched, files, effects, exports>>

VARIABLES
    commands,   \* load_config's local commands: the lines of the file
    lc_pc,      \* the last load_config: idle (none yet), returned, raised
    lc_env,     \* what its send_command calls met
    lc_sent,    \* the lines it gave to send_command, in order
    lc_logged   \* the lines whose error it logged as a warning, in order

loadVars == <<commands, lc_pc, lc_env, lc_sent, lc_logged>>

VARIABLES
    tpc,        \* each thread's position inside the streams property
    populating, \* the threads that found no stream cached
    todo,       \* each thread's indices of ps_indices still to come
    read_ids,   \* each thread's local list tpld_ids
    loaded,     \* the next_tpld_id each thread read for its max(...)
    made,       \* index -> XenaStream objects constructed for it
    advances,   \* each thread's assignments to XenaStream.next_tpld_id
    got         \* the ids of the dictionary each thread was returned

threadVars == <<tpc, populating, todo, read_ids, loaded, made, advances, got>>

\* the state of the operations modelled on their own, further below
toolVars == <<waitVars, codecVars, dumpVars, exportVars, loadVars,
              threadVars>>

vars == <<sockVars, portVars, callVars, hierVars, toolVars>>

\* what the methods of BaseSocket leave alone
notSocket == <<portVars, callVars, hierVars, toolVars>>

\* what the stream operations of the port leave alone
notStreams == <<sockVars, hierVars, toolVars>>

Result(op, outcome, msg, value) ==
    [op |-> op, outcome |-> outcome, msg |-> msg, value |-> value]

(* ------------------------- bytes and text ----------------------------- *)

\* range(a, b)
range(a, b) == a .. (b - 1)

\* bytes.find(needle): the lowest index (from 0) where needle starts, or -1
find(hay, needle) ==
    LET hits == { k \in 1 .. (Len(hay) - Len(needle) + 1) :
                    SubSeq(hay, k, k + Len(needle) - 1) = needle }
    IN  IF hits = {} THEN -1
        ELSE (CHOOSE k \in hits : \A m \in hits : k <= m) - 1

\* reply.find(b'---^') != -1 or reply.find(b'^---') != -1
ContainsMarker(chunk) ==
    find(chunk, MarkerA) # -1 \/ find(chunk, MarkerB) # -1

IsCont(b) == b >= 128 /\ b <= 191

\* bytes.decode("utf-8"): the code points, or ok = FALSE (UnicodeDecodeError)
RECURSIVE decode(_)
decode(bs) ==
    IF bs = <<>> THEN [ok |-> TRUE, text |-> <<>>]
    ELSE
      LET b0 == bs[1]
          n  == Len(bs)
          \* the length of the sequence b0 starts, 0 when b0 starts none
          k  == IF b0 < 128 THEN 1
                ELSE IF b0 >= 194 /\ b0 <= 223 THEN 2
                ELSE IF b0 >= 224 /\ b0 <= 239 THEN 3
                ELSE IF b0 >= 240 /\ b0 <= 244 THEN 4
                ELSE 0
          cp == IF k = 1 THEN b0
                ELSE IF k = 2 THEN (b0 - 192) * 64 + (bs[2] - 128)
                ELSE IF k = 3 THEN (b0 - 224) * 4096 + (bs[2] - 128) * 64
                                   + (bs[3] - 128)
                ELSE (b0 - 240) * 262144 + (bs[2] - 128) * 4096
                     + (bs[3] - 128) * 64 + (bs[4] - 128)
          wellFormed ==
                /\ k > 0
                /\ n >= k
                /\ \A j \in 2 .. k : IsCont(bs[j])
                /\ k = 3 => (cp >= 2048 /\ ~(cp >= 55296 /\ cp <= 57343))
                /\ k = 4 => (cp >= 65536 /\ cp <= 1114111)
      IN  IF ~wellFormed THEN [ok |-> FALSE, text |-> <<>>]
          ELSE LET rest == decode(SubSeq(bs, k + 1, n))
               IN  IF rest.ok
                   THEN [ok |-> TRUE, text |-> <<cp>> \o rest.text]
                   ELSE rest

\* bytearray(text, 'utf-8') for code points below U+0800
RECURSIVE encode(_)
encode(text) ==
    IF text = <<>> THEN <<>>
    ELSE LET c == text[1]
         IN  (IF c < 128 THEN <<c>>
              ELSE <<192 + (c \div 64), 128 + (c % 64)>>)
             \o encode(Tail(text))

(* ---------------------------- BaseSocket ------------------------------ *)

\* BaseSocket.__init__
SocketInit ==
    /\ connected = FALSE
    /\ sock = None
    /\ nsock = 0
    /\ okSocks = {}
    /\ closes = [s \in 1 .. MaxSockets |-> 0]
    /\ wire = <<>>
    /\ deleted = FALSE
    /\ pc = "idle"
    /\ i = 0
    /\ reply = <<>>
    /\ trace = <<>>
    /\ result = Result("__init__", "ok", "", <<>>)

\* a method can be called: the object exists and no call is running
Callable == pc = "idle" /\ ~deleted

\* readReply's locals and the record of its recv() calls end with the call
Forget == i' = 0 /\ reply' = <<>> /\ trace' = <<>>

\* BaseSocket.__connect: a new socket object, whose connect() is ok or raises
__connect(ok) ==
    /\ nsock' = nsock + 1
    /\ sock' = nsock + 1
    /\ okSocks' = IF ok THEN okSocks \cup {nsock + 1} ELSE okSocks

\* BaseSocket.disconnect, as the other methods call it
disconnectNoGuard ==
    /\ connected' = FALSE
    /\ closes' = [closes EXCEPT ![sock] = @ + 1]

disconnect ==
    IF ~connected
    THEN UNCHANGED <<connected, closes>>
    ELSE /\ connected' = FALSE
         /\ closes' = [closes EXCEPT ![sock] = @ + 1]

\* BaseSocket.connect
connectAlways ==
    /\ Callable
    /\ nsock < MaxSockets
    /\ \E ok \in BOOLEAN :
          /\ __connect(ok)
          /\ connected' = ok
          /\ result' = IF ok THEN Result("connect", "ok", "", <<>>)
                       ELSE Result("connect", "socket.error", "connect", <<>>)
    /\ Forget
    /\ UNCHANGED <<closes, wire, deleted, pc>>
    /\ UNCHANGED notSocket

connect ==
    /\ Callable
    /\ IF connected
       THEN /\ result' = Result("connect", "ok",
                                "Connect() on a connected socket", <<>>)
            /\ UNCHANGED <<connected, sock, nsock, okSocks>>
       ELSE /\ nsock < MaxSockets
            /\ \E ok \in BOOLEAN :
                  /\ __connect(ok)
                  /\ connected' = ok
                  /\ result' = IF ok THEN Result("connect", "ok", "", <<>>)
                               ELSE Result("connect", "socket.error",
                                           "connect", <<>>)
    /\ Forget
    /\ UNCHANGED <<closes, wire, deleted, pc>>
    /\ UNCHANGED notSocket

\* a caller's call of BaseSocket.disconnect
disconnectCall ==
    /\ Callable
    /\ disconnect
    /\ result' = Result("disconnect", "ok", "", <<>>)
    /\ Forget
    /\ UNCHANGED <<sock, nsock, okSocks, wire, deleted, pc>>
    /\ UNCHANGED notSocket

\* BaseSocket.__del__
del ==
    /\ Callable
    /\ disconnect
    /\ deleted' = TRUE
    /\ result' = Result("__del__", "ok", "", <<>>)
    /\ Forget
    /\ UNCHANGED <<sock, nsock, okSocks, wire, pc>>
    /\ UNCHANGED notSocket

\* BaseSocket.sendCommand: sock.send writes the line or raises socket.error
sendCommandKeepOpen(cmd) ==
    /\ Callable
    /\ Len(wire) < MaxWire
    /\ IF ~connected
       THEN /\ result' = Result("sendCommand", "socket.error",
                                "sendCommand() on a disconnected socket", <<>>)
            /\ UNCHANGED <<connected, closes, wire>>
       ELSE \E sent \in BOOLEAN :
              IF sent
              THEN /\ wire' = Append(wire, encode(cmd \o <<10>>))
                   /\ result' = Result("sendCommand", "ok", "", <<>>)
                   /\ UNCHANGED <<connected, closes>>
              ELSE /\ result' = Result("sendCommand", "socket.error",
                                       "Fail to send command", <<>>)
                   /\ UNCHANGED <<connected, closes, wire>>
    /\ Forget
    /\ UNCHANGED <<sock, nsock, okSocks, deleted, pc>>
    /\ UNCHANGED notSocket

sendCommand(cmd) ==
    /\ Callable
    /\ Len(wire) < MaxWire
    /\ IF ~connected
       THEN /\ result' = Result("sendCommand", "socket.error",
                                "sendCommand() on a disconnected socket", <<>>)
            /\ UNCHANGED <<connected, closes, wire>>
       ELSE \E sent \in BOOLEAN :
              IF sent
              THEN /\ wire' = Append(wire, encode(cmd \o <<10>>))
                   /\ result' = Result("sendCommand", "ok", "", <<>>)
                   /\ UNCHANGED <<connected, closes>>
              ELSE /\ disconnect
                   /\ result' = Result("sendCommand", "socket.error",
                                       "Fail to send command", <<>>)
                   /\ UNCHANGED wire
    /\ Forget
    /\ UNCHANGED <<sock, nsock, okSocks, deleted, pc>>
    /\ UNCHANGED notSocket

\* BaseSocket.readReply, lines 65-67: the connected check, then the loop starts
readReply ==
    /\ Callable
    /\ IF ~connected
       THEN /\ result' = Result("readReply", "socket.error",
                                "readReply() on a disconnected socket", <<>>)
            /\ Forget
            /\ UNCHANGED pc
       ELSE /\ pc' = "recv"
            /\ i' = 1
            /\ reply' = <<>>
            /\ trace' = <<>>
            /\ result' = Result("readReply", "running", "", <<>>)
    /\ UNCHANGED <<connected, sock, nsock, okSocks, closes, wire, deleted>>
    /\ UNCHANGED notSocket

\* lines 75-78: a recv() of attempt i raised
recvFailed ==
    /\ trace' = Append(trace, Fail)
    /\ IF i = retries - 1
       THEN /\ disconnect
            /\ result' = Result("readReply", "IOError",
                                "Fail to read response", <<>>)
            /\ pc' = "idle"
            /\ UNCHANGED i
       ELSE /\ i' = i + 1
            /\ pc' = "recv"
            /\ UNCHANGED <<connected, closes, result>>

\* lines 70-71, 74: the first recv() of attempt i
recvFirstKeep ==
    /\ pc = "recv"
    /\ i \in range(1, retries)
    /\ \/ recvFailed /\ UNCHANGED reply
       \/ \E chunk \in Chunks :
            /\ reply' = chunk
            /\ trace' = Append(trace, chunk)
            /\ pc' = "decode"
            /\ UNCHANGED <<connected, closes, i, result>>
    /\ UNCHANGED <<sock, nsock, okSocks, wire, deleted>>
    /\ UNCHANGED notSocket

recvFirst ==
    /\ pc = "recv"
    /\ i \in range(1, retries)
    /\ \/ recvFailed /\ UNCHANGED reply
       \/ \E chunk \in Chunks :
            /\ reply' = chunk
            /\ trace' = Append(trace, chunk)
            /\ pc' = IF ContainsMarker(chunk) THEN "recv2" ELSE "decode"
            /\ UNCHANGED <<connected, closes, i, result>>
    /\ UNCHANGED <<sock, nsock, okSocks, wire, deleted>>
    /\ UNCHANGED notSocket

\* line 73: the recv() for the actual message, after a marker chunk
recvNext ==
    /\ pc = "recv2"
    /\ \/ recvFailed /\ UNCHANGED reply
       \/ \E chunk \in Chunks :
            /\ reply' = chunk
            /\ trace' = Append(trace, chunk)
            /\ pc' = "decode"
            /\ UNCHANGED <<connected, closes, i, result>>
    /\ UNCHANGED <<sock, nsock, okSocks, wire, deleted>>
    /\ UNCHANGED notSocket

\* lines 80-82: decode and return
decodeReply ==
    /\ pc = "decode"
    /\ LET d == decode(reply)
       IN  result' = IF d.ok THEN Result("readReply", "ok", "", d.text)
                     ELSE Result("readReply", "UnicodeDecodeError", "", <<>>)
    /\ pc' = "idle"
    /\ UNCHANGED <<connected, sock, nsock, okSocks, closes, wire, deleted,
                   i, reply, trace>>
    /\ UNCHANGED notSocket

SocketNext ==
    \/ connect
    \/ disconnectCall
    \/ del
    \/ \E cmd \in Commands : sendCommand(cmd)
    \/ readReply
    \/ recvFirst
    \/ recvNext
    \/ decodeReply

(* ------------------------------ XenaPort ------------------------------ *)

\* the value of a set of integers that is largest; max([...])
Max(S) == CHOOSE x \in S : \A y \in S : y <= x

\* The tpld_id argument of add_stream: <<>> is None, <<r>> is the integer r.
ExplicitIds == {0, 3, 5}
TpldArgs == {<<>>} \cup { <<r>> : r \in ExplicitIds }

\* Python's truth value of the tpld_id argument: None and 0 are false
Truthy(arg) == arg # <<>> /\ arg[1] # 0

\* The streams a device may hold when the session starts: none, or stream 0
\* with ps_tpldid 3 and stream 1 with ps_tpldid 9.
EmptyMap == [x \in {} |-> 0]

\* an empty dictionary of children, and the value of an operation that
\* returns no child
NoChildren == [x \in {} |-> <<"", 0>>]
InitialDevices ==
    { [x \in S |-> IF x = 0 THEN 3 ELSE 9] : S \in { {}, {0, 1} } }

\* XenaStream.next_tpld_id when the class is loaded
InitialTpldId == 0

\* op: the operation; arg: add_stream's tpld_id argument; tpld: the id
\* add_stream gave the stream; before: the counter when that id was chosen;
\* index: the index add_stream gave the stream
PResult(op, outcome, arg, tpld, before, index) ==
    [op |-> op, outcome |-> outcome, arg |-> arg, tpld |-> tpld,
     before |-> before, index |-> index]

NoResult == PResult("__init__", "ok", <<>>, 0, 0, 0)

\* a port before its first operation, on a device without streams
PortStill ==
    /\ next_tpld_id = InitialTpldId
    /\ objects = {}
    /\ dev_streams = EmptyMap
    /\ created = <<>>
    /\ found = {}
    /\ failures = 0
    /\ presult = NoResult
    /\ calls = <<>>
    /\ returned = NoChildren

\* XenaPort.__init__, on a device that may hold streams
PortInit ==
    /\ next_tpld_id = InitialTpldId
    /\ objects = {}
    /\ dev_streams \in InitialDevices
    /\ created = <<>>
    /\ found = {}
    /\ failures = 0
    /\ presult = NoResult
    /\ calls = <<>>
    /\ returned = NoChildren

\* the port itself, as the object a call is made on
ThePort == <<"port", 0>>

\* one call to the api: its method, the object it is made on, its argument
Call(method, on, what) == [method |-> method, on |-> on, what |-> what]

\* the elements of a set of integers in ascending order: the order in which
\* the device lists indices
RECURSIVE Ascending(_)
Ascending(S) ==
    IF S = {} THEN <<>>
    ELSE LET m == CHOOSE x \in S : \A y \in S : x <= y
         IN  <<m>> \o Ascending(S \ {m})

\* the get_attribute calls made for each child of a discovery, in order
RECURSIVE child_reads(_, _, _)
child_reads(type, ids, attrs) ==
    IF ids = <<>> THEN <<>>
    ELSE [a \in 1 .. Len(attrs) |->
             Call("get_attribute", <<type, Head(ids)>>, attrs[a])]
         \o child_reads(type, Tail(ids), attrs)

\* the part of the state the streams property reads and writes
Here == [objects |-> objects, next |-> next_tpld_id, found |-> found]

\* get_objects_by_type(type), as ids
ids_by_type(objs, type) == { k[2] : k \in { o \in objs : o[1] = type } }

\* {s.id: s for s in self.get_objects_by_type(type)}
by_id(objs, type) == [x \in ids_by_type(objs, type) |-> <<type, x>>]

\* XenaObject.__init__ of a child: the parent's objects map gets the child
\* under its objRef, parent.ref/objType/id
register(objs, type, id) == objs \cup { <<type, id>> }

\* XenaPort.streams: fills an empty stream cache from the device's
\* ps_indices and moves the counter past every ps_tpldid read
streams_ids_only(st) ==
    IF ids_by_type(st.objects, "stream") # {}
    THEN st
    ELSE LET indices  == DOMAIN dev_streams
             tpld_ids == { dev_streams[x] : x \in indices }
         IN  [objects |-> st.objects \cup { <<"stream", x>> : x \in indices },
              next    |-> IF tpld_ids # {} THEN Max(tpld_ids) + 1 ELSE st.next,
              found   |-> st.found \cup tpld_ids]

streams(st) ==
    IF ids_by_type(st.objects, "stream") # {}
    THEN st
    ELSE LET indices  == DOMAIN dev_streams
             tpld_ids == { dev_streams[x] : x \in indices }
         IN  [objects |-> st.objects \cup { <<"stream", x>> : x \in indices },
              next    |-> IF tpld_ids # {}
                          THEN Max({st.next} \cup tpld_ids) + 1
                          ELSE st.next,
              found   |-> st.found \cup tpld_ids]

\* XenaPort.streams: the calls it makes, none when streams are cached
streams_calls(objs) ==
    IF ids_by_type(objs, "stream") # {}
    THEN <<>>
    ELSE <<Call("get_attribute", ThePort, "ps_indices")>>
         \o child_reads("stream", Ascending(DOMAIN dev_streams),
                        <<"ps_comment", "ps_tpldid">>)

\* the round trips of a discovery that may raise: ps_indices (k = 0), or
\* read a of the k-th stream listed, ps_comment (a = 1) or ps_tpldid (a = 2);
\* none when streams are cached
Raise(k, a) == [k |-> k, a |-> a]
Raises(objs) ==
    IF ids_by_type(objs, "stream") # {}
    THEN {}
    ELSE { Raise(0, 0) }
         \cup { Raise(k, a) : k \in 1 .. Cardinality(DOMAIN dev_streams),
                              a \in 1 .. 2 }

\* XenaPort.streams left by the exception of round trip r: line 256 has
\* registered the streams up to the k-th, the ps_tpldid of those before it
\* were read, and line 262 was not reached
streams_raising(st, r) ==
    LET indices == Ascending(DOMAIN dev_streams)
    IN  [objects |-> st.objects
                     \cup { <<"stream", indices[n]>> : n \in 1 .. r.k },
         next    |-> st.next,
         found   |-> st.found
                     \cup { dev_streams[indices[n]] : n \in 1 .. (r.k - 1) }]

\* the calls made up to the one that raised
streams_calls_raising(r) ==
    LET indices == Ascending(DOMAIN dev_streams)
        attrs   == <<"ps_comment", "ps_tpldid">>
    IN  <<Call("get_attribute", ThePort, "ps_indices")>>
        \o (IF r.k = 0 THEN <<>>
            ELSE child_reads("stream", SubSeq(indices, 1, r.k - 1), attrs)
                 \o child_reads("stream", <<indices[r.k]>>,
                                SubSeq(attrs, 1, r.a)))

\* operation op reads port.streams and a round trip of the discovery raises
streams_raise(op, arg) ==
    /\ failures < MaxFailures
    /\ failures' = failures + 1
    /\ \E r \in Raises(objects) :
          LET st == streams_raising(Here, r)
          IN  /\ objects' = st.objects
              /\ found' = st.found
              /\ calls' = streams_calls_raising(r)
    /\ presult' = PResult(op, "error", arg, 0, next_tpld_id, 0)
    /\ returned' = NoChildren
    /\ UNCHANGED <<next_tpld_id, dev_streams, created>>
    /\ UNCHANGED notStreams

\* a caller reads port.streams
streams_get ==
    \/ /\ LET st == streams(Here)
          IN  /\ objects' = st.objects
              /\ next_tpld_id' = st.next
              /\ found' = st.found
              /\ presult' = PResult("streams", "ok", <<>>, 0, 0, 0)
              /\ calls' = streams_calls(objects)
              /\ returned' = by_id(st.objects, "stream")
       /\ UNCHANGED <<dev_streams, created, failures>>
       /\ UNCHANGED notStreams
    \/ streams_raise("streams", <<>>)

\* line 124: the counter after a stream was given tpld_id
advance_as_specified(next, tpld_id) == Max({next, tpld_id + 1})

advance(next, tpld_id) == Max({next + 1, tpld_id + 1})

\* the command of add_stream that raises, if any: _create (line 121, the
\* device rejects the stream), set_attributes (line 123, after the device
\* took ps_tpldid) or set_state (line 125)
AddRaises == { "", "_create", "set_attributes", "set_state" }

\* XenaPort.add_stream
add_stream(tpld_arg) ==
    \/ streams_raise("add_stream", tpld_arg)
    \/ /\ Len(created) < MaxCreated
       /\ \E raised \in AddRaises :
            LET st      == streams(Here)
                \* '{}/{}'.format(self.index, len(self.streams))
                index   == Cardinality(ids_by_type(st.objects, "stream"))
                \* tpld_id if tpld_id else XenaStream.next_tpld_id
                tpld_id == IF Truthy(tpld_arg) THEN tpld_arg[1] ELSE st.next
                sent    == << Call("_create", <<"stream", index>>, <<>>),
                              Call("set_attributes", <<"stream", index>>,
                                   <<"ps_comment", "ps_tpldid", tpld_id>>),
                              Call("set_state", <<"stream", index>>, <<>>) >>
            IN  /\ raised # "" => failures < MaxFailures
                /\ failures' = IF raised = "" THEN failures ELSE failures + 1
                \* line 120: the new stream is put into the port's objects
                /\ objects' = register(st.objects, "stream", index)
                \* stream._create() and set_attributes(ps_tpldid = tpld_id)
                /\ dev_streams' =
                      IF raised = "_create" THEN dev_streams
                      ELSE [x \in DOMAIN dev_streams \cup {index} |->
                               IF x = index THEN tpld_id ELSE dev_streams[x]]
                /\ created' =
                      IF raised = "_create" THEN created
                      ELSE Append(created, tpld_id)
                \* line 124, which an exception before it skips
                /\ next_tpld_id' =
                      IF raised \in { "_create", "set_attributes" }
                      THEN st.next
                      ELSE advance(st.next, tpld_id)
                /\ found' = st.found
                /\ presult' = PResult("add_stream",
                                      IF raised = "" THEN "ok" ELSE "error",
                                      tpld_arg, tpld_id, st.next, index)
                /\ calls' = streams_calls(objects)
                            \o SubSeq(sent, 1,
                                      IF raised = "_create" THEN 1
                                      ELSE IF raised = "set_attributes" THEN 2
                                      ELSE 3)
                /\ returned' = IF raised = ""
                               THEN [x \in {index} |-> <<"stream", index>>]
                               ELSE NoChildren
       /\ UNCHANGED notStreams

\* XenaStream.del_object_from_parent: the device deletes the stream and the
\* parent's objects map drops it
del_object_from_parent(objs, type, id) == objs \ { <<type, id>> }

\* XenaPort.remove_stream
remove_stream(index) ==
    \/ streams_raise("remove_stream", <<>>)
    \/ /\ LET st == streams(Here)
          IN  /\ next_tpld_id' = st.next
              /\ found' = st.found
              /\ IF index \in ids_by_type(st.objects, "stream")
                 THEN /\ objects' = del_object_from_parent(st.objects,
                                                           "stream", index)
                      /\ dev_streams' =
                            [x \in DOMAIN dev_streams \ {index} |->
                                dev_streams[x]]
                      /\ presult' = PResult("remove_stream", "ok", <<>>, 0,
                                            0, 0)
                      /\ calls' = streams_calls(objects)
                                  \o << Call("del_object_from_parent",
                                             <<"stream", index>>, <<>>) >>
                 ELSE /\ objects' = st.objects
                      /\ UNCHANGED dev_streams
                      /\ presult' = PResult("remove_stream", "KeyError",
                                            <<>>, 0, 0, 0)
                      /\ calls' = streams_calls(objects)
       /\ returned' = NoChildren
       /\ UNCHANGED <<created, failures>>
       /\ UNCHANGED notStreams

\* XenaPort.reset, clearing the streams only
reset_streams_only ==
    /\ objects' = { o \in objects : o[1] # "stream" }
    /\ cap_objects' = cap_objects
    /\ calls' = << Call("send_command", ThePort, "p_reset") >>
    /\ returned' = NoChildren
    /\ \/ /\ dev_streams' = EmptyMap
          /\ dev_filters' = {}
          /\ presult' = PResult("reset", "ok", <<>>, 0, 0, 0)
          /\ UNCHANGED failures
       \/ /\ failures < MaxFailures
          /\ failures' = failures + 1
          /\ presult' = PResult("reset", "error", <<>>, 0, 0, 0)
          /\ UNCHANGED <<dev_streams, dev_filters>>
    /\ UNCHANGED <<next_tpld_id, created, found>>
    /\ UNCHANGED <<parent_objects, dev_tplds, dev_packets, changes>>
    /\ UNCHANGED <<sockVars, toolVars>>

\* XenaPort.reset, putting the children back when p_reset fails
reset_restoring ==
    /\ calls' = << Call("send_command", ThePort, "p_reset") >>
    /\ returned' = NoChildren
    /\ \/ /\ objects' = {}
          /\ cap_objects' = {}
          /\ dev_streams' = EmptyMap
          /\ dev_filters' = {}
          /\ presult' = PResult("reset", "ok", <<>>, 0, 0, 0)
          /\ UNCHANGED failures
       \/ /\ failures < MaxFailures
          /\ failures' = failures + 1
          /\ presult' = PResult("reset", "error", <<>>, 0, 0, 0)
          /\ UNCHANGED <<objects, cap_objects, dev_streams, dev_filters>>
    /\ UNCHANGED <<next_tpld_id, created, found>>
    /\ UNCHANGED <<parent_objects, dev_tplds, dev_packets, changes>>
    /\ UNCHANGED <<sockVars, toolVars>>

\* XenaPort.reset: the device carries out p_reset (it deletes the port's
\* streams and filters), or the command fails. The capture object leaves the
\* port's objects with the rest, and with it the packets it had cached.
reset ==
    /\ objects' = {}
    /\ cap_objects' = {}
    /\ calls' = << Call("send_command", ThePort, "p_reset") >>
    /\ returned' = NoChildren
    /\ \/ /\ dev_streams' = EmptyMap
          /\ dev_filters' = {}
          /\ presult' = PResult("reset", "ok", <<>>, 0, 0, 0)
          /\ UNCHANGED failures
       \/ /\ failures < MaxFailures
          /\ failures' = failures + 1
          /\ presult' = PResult("reset", "error", <<>>, 0, 0, 0)
          /\ UNCHANGED <<dev_streams, dev_filters>>
    /\ UNCHANGED <<next_tpld_id, created, found>>
    /\ UNCHANGED <<parent_objects, dev_tplds, dev_packets, changes>>
    /\ UNCHANGED <<sockVars, toolVars>>

\* the indices a stream may have, and the index remove_stream is called with
StreamIndices == {0, 1, 2}
RemovedIndices == {0}

PortNext ==
    \/ streams_get
    \/ \E tpld_arg \in TpldArgs : add_stream(tpld_arg)
    \/ \E index \in RemovedIndices : remove_stream(index)
    \/ reset

(* ------------- XenaPort: filters, tplds, capture, packets ------------- *)

\* what the collection properties below leave alone
notChildren == <<sockVars, toolVars>>

\* the capture object's id: the last segment of the port's index
CaptureId == 0

\* XenaPort.filters: fills an empty filter cache from the device's PF_INDICES
filters_always(objs) ==
    objs \cup { <<"xena_filter", x>> : x \in dev_filters }

filters(objs) ==
    IF ids_by_type(objs, "xena_filter") # {}
    THEN objs
    ELSE objs \cup { <<"xena_filter", x>> : x \in dev_filters }

\* XenaPort.filters: the calls it makes, none when filters are cached
filters_calls(objs) ==
    IF ids_by_type(objs, "xena_filter") # {}
    THEN <<>>
    ELSE <<Call("get_attribute", ThePort, "PF_INDICES")>>
         \o child_reads("xena_filter", Ascending(dev_filters),
                        <<"PF_COMMENT">>)

\* a caller reads port.filters
filters_get ==
    /\ objects' = filters(objects)
    /\ calls' = filters_calls(objects)
    /\ returned' = by_id(filters(objects), "xena_filter")
    /\ presult' = PResult("filters", "ok", <<>>, 0, 0, 0)
    /\ UNCHANGED <<next_tpld_id, dev_streams, created, found, failures>>
    /\ UNCHANGED hierVars
    /\ UNCHANGED notChildren

\* TgnObject.del_objects_by_type(type): the object drops its children of
\* that type
del_objects_by_type(objs, type) == { o \in objs : o[1] # type }

\* XenaPort.add_filter: the new filter's index is the number of filters
\* cached; _create makes the device create the filter of that index
add_filter ==
    /\ LET objs  == filters(objects)
           \* '{}/{}'.format(self.index, len(self.filters))
           index == Cardinality(ids_by_type(objs, "xena_filter"))
       IN  /\ index < MaxFilters
           /\ objects' = register(objs, "xena_filter", index)
           /\ dev_filters' = dev_filters \cup {index}
           /\ calls' = filters_calls(objects)
                       \o << Call("_create", <<"xena_filter", index>>, <<>>),
                             Call("set_attributes", <<"xena_filter", index>>,
                                  <<"PF_CONDITION">>),
                             Call("set_state", <<"xena_filter", index>>,
                                  <<>>) >>
           /\ returned' = [x \in {index} |-> <<"xena_filter", index>>]
           /\ presult' = PResult("add_filter", "ok", <<>>, 0, 0, index)
    /\ UNCHANGED <<next_tpld_id, dev_streams, created, found, failures>>
    /\ UNCHANGED <<parent_objects, cap_objects, dev_tplds, dev_packets,
                   changes>>
    /\ UNCHANGED notChildren

\* a caller deletes one filter: port.filters[index].del_object_from_parent().
\* XenaFilter.del_object_from_parent only takes the filter out of the
\* port's objects; the device keeps it
delete_filter(index) ==
    /\ LET objs == filters(objects)
       IN  IF index \in ids_by_type(objs, "xena_filter")
           THEN /\ objects' = del_object_from_parent(objs, "xena_filter",
                                                     index)
                /\ calls' = filters_calls(objects)
                            \o << Call("del_object_from_parent",
                                       <<"xena_filter", index>>, <<>>) >>
                /\ presult' = PResult("delete_filter", "ok", <<>>, 0, 0,
                                      index)
           ELSE /\ objects' = objs
                /\ calls' = filters_calls(objects)
                /\ presult' = PResult("delete_filter", "KeyError", <<>>, 0,
                                      0, index)
    /\ returned' = NoChildren
    /\ UNCHANGED <<next_tpld_id, dev_streams, created, found, failures>>
    /\ UNCHANGED hierVars
    /\ UNCHANGED notChildren

\* XenaPort.clear_filters: PF_INDICES without indices leaves the device
\* without filters, then every cached filter (read again from the device
\* if none is cached) is taken out of the port's objects
clear_filters ==
    /\ dev_filters' = {}
    /\ objects' = del_objects_by_type(objects, "xena_filter")
    /\ calls' = << Call("send_command", ThePort, "PF_INDICES") >>
                \o (IF ids_by_type(objects, "xena_filter") # {} THEN <<>>
                    ELSE <<Call("get_attribute", ThePort, "PF_INDICES")>>)
                \o [k \in 1 .. Cardinality(ids_by_type(objects,
                                                        "xena_filter")) |->
                       Call("del_object_from_parent",
                            <<"xena_filter",
                              Ascending(ids_by_type(objects,
                                                    "xena_filter"))[k]>>,
                            <<>>)]
    /\ returned' = NoChildren
    /\ presult' = PResult("clear_filters", "ok", <<>>, 0, 0, 0)
    /\ UNCHANGED <<next_tpld_id, dev_streams, created, found, failures>>
    /\ UNCHANGED <<parent_objects, cap_objects, dev_tplds, dev_packets,
                   changes>>
    /\ UNCHANGED notChildren

\* XenaPort.tplds: self.parent.del_objects_by_type('tpld'), then one XenaTpld
\* per id of pr_tplds, registered with the port
tplds(objs) == objs \cup { <<"tpld", x>> : x \in dev_tplds }

\* a caller reads port.tplds
tplds_get ==
    /\ parent_objects' = del_objects_by_type(parent_objects, "tpld")
    /\ objects' = tplds(objects)
    /\ calls' = <<Call("get_attribute", ThePort, "pr_tplds")>>
    /\ returned' = by_id(tplds(objects), "tpld")
    /\ presult' = PResult("tplds", "ok", <<>>, 0, 0, 0)
    /\ UNCHANGED <<next_tpld_id, dev_streams, created, found, failures>>
    /\ UNCHANGED <<cap_objects, dev_filters, dev_tplds, dev_packets, changes>>
    /\ UNCHANGED notChildren

\* XenaPort.capture: the port's capture object, created when there is none
capture(objs) ==
    IF ids_by_type(objs, "capture") = {}
    THEN register(objs, "capture", CaptureId)
    ELSE objs

\* the objects of the capture that port.capture gives: a capture created
\* just now has none
capture_objects(objs, cobjs) ==
    IF ids_by_type(objs, "capture") = {} THEN {} ELSE cobjs

\* a caller reads port.capture
capture_get ==
    /\ objects' = capture(objects)
    /\ cap_objects' = capture_objects(objects, cap_objects)
    /\ calls' = <<>>
    /\ returned' = by_id(capture(objects), "capture")
    /\ presult' = PResult("capture", "ok", <<>>, 0, 0, 0)
    /\ UNCHANGED <<next_tpld_id, dev_streams, created, found, failures>>
    /\ UNCHANGED <<parent_objects, dev_filters, dev_tplds, dev_packets,
                   changes>>
    /\ UNCHANGED notChildren

\* XenaPort.start_capture: the port drops its capture object, and with it
\* the packets that object had cached, then sends p_capture on
start_capture ==
    /\ objects' = del_objects_by_type(objects, "capture")
    /\ cap_objects' = {}
    /\ calls' = << Call("send_command", ThePort, "p_capture") >>
    /\ returned' = NoChildren
    /\ presult' = PResult("start_capture", "ok", <<>>, 0, 0, 0)
    /\ UNCHANGED <<next_tpld_id, dev_streams, created, found, failures>>
    /\ UNCHANGED <<parent_objects, dev_filters, dev_tplds, dev_packets,
                   changes>>
    /\ UNCHANGED notChildren

\* XenaCapture.packets: fills an empty packet cache with one XenaCapturePacket
\* per index below the packets count of pc_stats
packets_always(cobjs) ==
    cobjs \cup { <<"cappacket", x>> : x \in range(0, dev_packets) }

packets(cobjs) ==
    IF ids_by_type(cobjs, "cappacket") # {}
    THEN cobjs
    ELSE cobjs \cup { <<"cappacket", x>> : x \in range(0, dev_packets) }

\* XenaCapture.packets: the calls it makes, none when packets are cached
packets_calls(cobjs) ==
    IF ids_by_type(cobjs, "cappacket") # {}
    THEN <<>>
    ELSE <<Call("read_stat", <<"capture", CaptureId>>, "pc_stats")>>

\* a caller reads port.capture.packets
packets_get ==
    /\ objects' = capture(objects)
    /\ LET cobjs == capture_objects(objects, cap_objects)
       IN  /\ cap_objects' = packets(cobjs)
           /\ calls' = packets_calls(cobjs)
           /\ returned' = by_id(packets(cobjs), "cappacket")
    /\ presult' = PResult("packets", "ok", <<>>, 0, 0, 0)
    /\ UNCHANGED <<next_tpld_id, dev_streams, created, found, failures>>
    /\ UNCHANGED <<parent_objects, dev_filters, dev_tplds, dev_packets,
                   changes>>
    /\ UNCHANGED notChildren

\* what the device may report: filter indices, tracker ids, packets captured
FilterIndices == {0, 1}
TpldIds == {0, 1}
PacketCounts == 0 .. MaxPackets

\* what a change of the device leaves alone
notDevice == <<sockVars, toolVars, callVars, next_tpld_id, objects, created,
               found, failures, presult, parent_objects, cap_objects>>

\* The device changes without the port: another user of the chassis adds or
\* removes streams or filters, traffic starts or stops, packets are captured.
streams_change ==
    /\ changes < MaxDeviceChanges
    /\ changes' = changes + 1
    /\ \E d \in InitialDevices \ {dev_streams} : dev_streams' = d
    /\ UNCHANGED <<dev_filters, dev_tplds, dev_packets>>
    /\ UNCHANGED notDevice

filters_change ==
    /\ changes < MaxDeviceChanges
    /\ changes' = changes + 1
    /\ \E d \in (SUBSET FilterIndices) \ {dev_filters} : dev_filters' = d
    /\ UNCHANGED <<dev_streams, dev_tplds, dev_packets>>
    /\ UNCHANGED notDevice

tplds_change ==
    /\ changes < MaxDeviceChanges
    /\ changes' = changes + 1
    /\ \E d \in (SUBSET TpldIds) \ {dev_tplds} : dev_tplds' = d
    /\ UNCHANGED <<dev_streams, dev_filters, dev_packets>>
    /\ UNCHANGED notDevice

packets_change ==
    /\ changes < MaxDeviceChanges
    /\ changes' = changes + 1
    /\ \E d \in PacketCounts \ {dev_packets} : dev_packets' = d
    /\ UNCHANGED <<dev_streams, dev_filters, dev_tplds>>
    /\ UNCHANGED notDevice

\* a port whose device already reports filters, trackers and packets
HierInit ==
    /\ parent_objects = { ThePort }
    /\ cap_objects = {}
    /\ dev_filters \in { {}, {0} }
    /\ dev_tplds \in { {}, {0, 1} }
    /\ dev_packets \in { 0, 1 }
    /\ changes = 0

HierNext ==
    \/ streams_get
    \/ filters_get
    \/ tplds_get
    \/ capture_get
    \/ packets_get
    \/ start_capture
    \/ reset
    \/ streams_change
    \/ filters_change
    \/ tplds_change
    \/ packets_change

\* a port on a device that holds some streams and at most one filter
IndexInit ==
    /\ parent_objects = { ThePort }
    /\ cap_objects = {}
    /\ dev_filters \in { {}, {0}, {1} }
    /\ dev_tplds = {}
    /\ dev_packets = 0
    /\ changes = 0

\* children added to the port and deleted from it
IndexNext ==
    \/ add_stream(<<>>)
    \/ \E index \in RemovedIndices : remove_stream(index)
    \/ add_filter
    \/ \E index \in FilterIndices : delete_filter(index)
    \/ clear_filters

(* ----------------------- XenaObject.wait_for_states ------------------- *)

\* str.lower() of ASCII text
lower(text) ==
    [k \in 1 .. Len(text) |->
        IF text[k] >= 65 /\ text[k] <= 90 THEN text[k] + 32 ELSE text[k]]

\* the texts "IN_SYNC", "in_sync", "In_Sync", "NO_SYNC" and "DOWN"
IN_SYNC == <<73, 78, 95, 83, 89, 78, 67>>
in_sync == <<105, 110, 95, 115, 121, 110, 99>>
In_Sync == <<73, 110, 95, 83, 121, 110, 99>>
NO_SYNC == <<78, 79, 95, 83, 89, 78, 67>>
DOWN == <<68, 79, 87, 78>>

\* what get_attribute may return for the attribute waited on
AttributeValues == { IN_SYNC, in_sync, NO_SYNC, DOWN }

\* the *states arguments of wait_for_states
StatesArgs == { <<IN_SYNC>>, <<In_Sync, NO_SYNC>> }

\* value.lower() in [s.lower() for s in states]
accepted(value, sts) ==
    \E k \in 1 .. Len(sts) : lower(value) = lower(sts[k])

\* outcome: running, ok (returned) or TgnError; state and seconds are what
\* the message of the error reports
WResult(outcome, state, seconds) ==
    [outcome |-> outcome, state |-> state, seconds |-> seconds]

WaitStill ==
    /\ wpc = "idle"
    /\ timeout = 0
    /\ states = <<>>
    /\ round = 0
    /\ observed = <<>>
    /\ sleeps = 0
    /\ wresult = WResult("none", <<>>, 0)

\* what the steps of wait_for_states leave alone
notWait == <<sockVars, portVars, callVars, hierVars, codecVars, dumpVars,
            exportVars, loadVars, threadVars>>

\* wait_for_states(attribute, timeout, *states) is called: range(timeout)
\* is empty when timeout is 0
wait_for_states(t, sts) ==
    /\ wpc = "idle"
    /\ timeout' = t
    /\ states' = sts
    /\ round' = 0
    /\ observed' = <<>>
    /\ sleeps' = 0
    /\ wresult' = WResult("running", <<>>, 0)
    /\ wpc' = IF 0 \in range(0, t) THEN "poll" ELSE "raise"
    /\ UNCHANGED notWait

\* line 86: get_attribute, and return when the state is an accepted one
poll ==
    /\ wpc = "poll"
    /\ \E value \in AttributeValues :
          /\ observed' = Append(observed, value)
          /\ IF accepted(value, states)
             THEN /\ wpc' = "idle"
                  /\ wresult' = WResult("ok", <<>>, 0)
             ELSE /\ wpc' = "sleep"
                  /\ UNCHANGED wresult
    /\ UNCHANGED <<timeout, states, round, sleeps>>
    /\ UNCHANGED notWait

\* line 88: time.sleep(1), then the next iteration of range(timeout), if any
sleep_one_round_more ==
    /\ wpc = "sleep"
    /\ sleeps' = sleeps + 1
    /\ round' = round + 1
    /\ wpc' = IF round + 1 \in range(0, timeout + 2) THEN "poll" ELSE "raise"
    /\ UNCHANGED <<timeout, states, observed, wresult>>
    /\ UNCHANGED notWait

sleep ==
    /\ wpc = "sleep"
    /\ sleeps' = sleeps + 1
    /\ round' = round + 1
    /\ wpc' = IF round + 1 \in range(0, timeout) THEN "poll" ELSE "raise"
    /\ UNCHANGED <<timeout, states, observed, wresult>>
    /\ UNCHANGED notWait

\* lines 89-90: the error's message is built with one more get_attribute
raise_last_polled ==
    /\ wpc = "raise"
    /\ wresult' = WResult("TgnError",
                          IF observed = <<>> THEN <<>>
                          ELSE observed[Len(observed)], timeout)
    /\ wpc' = "idle"
    /\ UNCHANGED <<timeout, states, round, observed, sleeps>>
    /\ UNCHANGED notWait

raise ==
    /\ wpc = "raise"
    /\ \E value \in AttributeValues :
          /\ observed' = Append(observed, value)
          /\ wresult' = WResult("TgnError", value, timeout)
    /\ wpc' = "idle"
    /\ UNCHANGED <<timeout, states, round, sleeps>>
    /\ UNCHANGED notWait

\* the timeout arguments wait_for_states is called with
Timeouts == 0 .. MaxTimeout

WaitNext ==
    \/ \E t \in Timeouts, sts \in StatesArgs : wait_for_states(t, sts)
    \/ poll
    \/ sleep
    \/ raise

(* ------------- _build_index_command and _extract_return --------------- *)

\* the characters ' ', '/', '[' and ']'
Space == 32
Slash == 47
BracketOpen == 91
BracketClose == 93

\* the characters the pattern \s matches in a str pattern: the ASCII ones
\* and the Unicode separators str.isspace() knows
Whitespace ==
    (9 .. 13) \cup (28 .. 32) \cup {133, 160, 5760} \cup (8192 .. 8202)
    \cup {8232, 8233, 8239, 8287, 12288}

\* str.upper() of ASCII text
upper(text) ==
    [k \in 1 .. Len(text) |->
        IF text[k] >= 97 /\ text[k] <= 122 THEN text[k] - 32 ELSE text[k]]

\* len(arguments) * ' {}', formatted with the arguments
RECURSIVE spaced(_)
spaced(args) ==
    IF args = <<>> THEN <<>>
    ELSE <<Space>> \o Head(args) \o spaced(Tail(args))

\* str.split(sep)
RECURSIVE split(_, _)
split(text, sep) ==
    LET hits == { k \in 1 .. Len(text) : text[k] = sep }
    IN  IF hits = {} THEN <<text>>
        ELSE LET k == CHOOSE x \in hits : \A y \in hits : x <= y
             IN  <<SubSeq(text, 1, k - 1)>>
                 \o split(SubSeq(text, k + 1, Len(text)), sep)

\* XenaObject._build_index_command
build_index_command(idx, cmd, args) ==
    idx \o <<Space>> \o cmd \o spaced(args)

\* XenaObject21._build_index_command
build_index_command21(idx, cmd, args) ==
    LET parts == split(idx, Slash)
    IN  parts[1] \o <<Slash>> \o parts[2] \o <<Space>> \o cmd
        \o <<Space, BracketOpen>> \o parts[3] \o <<BracketClose>>
        \o spaced(args)

\* the parts of a pattern: a literal text, or \s*
Literal(text) == [star |-> FALSE, text |-> text]
SpaceStar == [star |-> TRUE, text |-> <<>>]

\* '{}\s*{}\s*'.format(self.index, command.upper())
pattern(idx, cmd) ==
    << Literal(idx), SpaceStar, Literal(upper(cmd)), SpaceStar >>

\* '{}/{}\s*{}\s*\[{}\]\s*'.format(module, port, command.upper(), sid)
pattern21(idx, cmd) ==
    LET parts == split(idx, Slash)
    IN  << Literal(parts[1] \o <<Slash>> \o parts[2]), SpaceStar,
           Literal(upper(cmd)), SpaceStar,
           Literal(<<BracketOpen>> \o parts[3] \o <<BracketClose>>),
           SpaceStar >>

\* the whitespace characters of text from position pos on
RECURSIVE space_run(_, _)
space_run(text, pos) ==
    IF pos <= Len(text) /\ text[pos] \in Whitespace
    THEN 1 + space_run(text, pos + 1)
    ELSE 0

\* the position after the match of the pattern that starts at pos, 0 when
\* there is none; \s* takes the longest run that lets the rest match
RECURSIVE match(_, _, _)
match(pat, text, pos) ==
    IF pat = <<>> THEN pos
    ELSE IF Head(pat).star
    THEN LET fits == { k \in 0 .. space_run(text, pos) :
                         match(Tail(pat), text, pos + k) # 0 }
         IN  IF fits = {} THEN 0
             ELSE match(Tail(pat), text, pos + Max(fits))
    ELSE LET lit == Head(pat).text
         IN  IF /\ pos + Len(lit) - 1 <= Len(text)
                /\ SubSeq(text, pos, pos + Len(lit) - 1) = lit
             THEN match(Tail(pat), text, pos + Len(lit))
             ELSE 0

\* re.sub(pattern, '', text) from position pos on: every match is removed
RECURSIVE sub(_, _, _)
sub(pat, text, pos) ==
    IF pos > Len(text) THEN <<>>
    ELSE LET e == match(pat, text, pos)
         IN  IF e > pos
             THEN sub(pat, text, e)
             ELSE <<text[pos]>> \o sub(pat, text, pos + 1)

\* XenaObject._extract_return
extract_return(idx, cmd, value) == sub(pattern(idx, cmd), value, 1)

\* XenaObject21._extract_return
extract_return21(idx, cmd, value) == sub(pattern21(idx, cmd), value, 1)

\* the texts "0", "c", "C", "ps_x", "1", "?" and "0c", and "1" after the
\* separator U+001C
Text0 == <<48>>
Textc == <<99>>
TextC == <<67>>
Textps_x == <<112, 115, 95, 120>>
Text1 == <<49>>
TextQuery == <<63>>
Text0c == <<48, 99>>
TextFS1 == <<28, 49>>

\* the objects: a XenaObject with index "0" or "0/1", a XenaObject21 with
\* index "0/1/2" or "1/1/1"
CodecObjects ==
    { [variant |-> "XenaObject", index |-> Text0],
      [variant |-> "XenaObject", index |-> <<48, 47, 49>>],
      [variant |-> "XenaObject21", index |-> <<48, 47, 49, 47, 50>>],
      [variant |-> "XenaObject21", index |-> <<49, 47, 49, 47, 49>>] }

CodecCommands == { Textc, TextC, Textps_x }

CodecArguments ==
    { <<>>, <<TextQuery>>, <<Text1>>, <<Text1, Textps_x>>, <<Text0, Textc>>,
      <<Text0c>>, <<TextFS1>> }

\* an object, a command and its arguments are chosen
CodecInit ==
    /\ codec_pc = "start"
    /\ \E o \in CodecObjects : variant = o.variant /\ obj_index = o.index
    /\ command \in CodecCommands
    /\ arguments \in CodecArguments
    /\ index_command = <<>>
    /\ index_command_value = <<>>
    /\ echoed = FALSE
    /\ extracted = <<>>

CodecStill ==
    /\ codec_pc = "start"
    /\ variant = "XenaObject"
    /\ obj_index = Text0
    /\ command = TextC
    /\ arguments = <<>>
    /\ index_command = <<>>
    /\ index_command_value = <<>>
    /\ echoed = FALSE
    /\ extracted = <<>>

\* what the codec leaves alone
notCodec == <<sockVars, portVars, callVars, hierVars, waitVars, dumpVars,
             exportVars, loadVars, threadVars>>

\* self._build_index_command(command, *arguments)
build ==
    /\ codec_pc = "start"
    /\ index_command' =
          IF variant = "XenaObject"
          THEN build_index_command(obj_index, command, arguments)
          ELSE build_index_command21(obj_index, command, arguments)
    /\ codec_pc' = "built"
    /\ UNCHANGED <<variant, obj_index, command, arguments,
                   index_command_value, echoed, extracted>>
    /\ UNCHANGED notCodec

\* the reply line is the command line as it was built
reply_same ==
    /\ codec_pc = "built"
    /\ index_command_value' = index_command
    /\ echoed' = FALSE
    /\ codec_pc' = "replied"
    /\ UNCHANGED <<variant, obj_index, command, arguments, index_command,
                   extracted>>
    /\ UNCHANGED notCodec

\* the reply line is the device's echo of the command line, in upper case
reply_upper ==
    /\ codec_pc = "built"
    /\ index_command_value' = upper(index_command)
    /\ echoed' = TRUE
    /\ codec_pc' = "replied"
    /\ UNCHANGED <<variant, obj_index, command, arguments, index_command,
                   extracted>>
    /\ UNCHANGED notCodec

\* self._extract_return(command, index_command_value)
extract ==
    /\ codec_pc = "replied"
    /\ extracted' =
          IF variant = "XenaObject"
          THEN extract_return(obj_index, command, index_command_value)
          ELSE extract_return21(obj_index, command, index_command_value)
    /\ codec_pc' = "extracted"
    /\ UNCHANGED <<variant, obj_index, command, arguments, index_command,
                   index_command_value, echoed>>
    /\ UNCHANGED notCodec

CodecNext ==
    \/ build
    \/ reply_same
    \/ reply_upper
    \/ extract

(* ------------------ get_packets: the text of a packet ----------------- *)

\* the character '\n'
Newline == 10

\* the hexadecimal digit of d as format's x writes it: 0-9, a-f
hex_digit(d) == IF d < 10 THEN 48 + d ELSE 87 + d

\* '{:x}'.format(n)
RECURSIVE hex(_)
hex(n) ==
    IF n < 16 THEN <<hex_digit(n)>>
    ELSE hex(n \div 16) \o <<hex_digit(n % 16)>>

\* '{:06x}'.format(n): zeros on the left up to six characters
hex06(n) ==
    LET digits == hex(n)
    IN  [k \in 1 .. Max({0, 6 - Len(digits)}) |-> 48] \o digits

\* lines 363-369: the characters c, c + 1, ... of raw make the rest of the
\* text; int(c / 2) is the byte offset
RECURSIVE text_from_char_offset(_, _)
text_from_char_offset(raw, c) ==
    IF c >= Len(raw) THEN <<>>
    ELSE (IF c % 32 = 0 THEN <<Newline>> \o hex06(c) \o <<Space>>
          ELSE IF c % 2 = 0 THEN <<Space>>
          ELSE <<>>)
         \o <<raw[c + 1]>>
         \o text_from_char_offset(raw, c + 1)

RECURSIVE text_from(_, _)
text_from(raw, c) ==
    IF c >= Len(raw) THEN <<>>
    ELSE (IF c % 32 = 0 THEN <<Newline>> \o hex06(c \div 2) \o <<Space>>
          ELSE IF c % 2 = 0 THEN <<Space>>
          ELSE <<>>)
         \o <<raw[c + 1]>>
         \o text_from(raw, c + 1)

\* the hexadecimal digit of d as the device writes it: 0-9, A-F
device_digit(d) == IF d < 10 THEN 48 + d ELSE 55 + d

\* a packet of n bytes as the device reports it after '0x': byte k is
\* first + k * step (mod 256)
raw_of(n, first, step) ==
    [c \in 1 .. 2 * n |->
        LET byte == (first + ((c - 1) \div 2) * step) % 256
        IN  IF c % 2 = 1 THEN device_digit(byte \div 16)
            ELSE device_digit(byte % 16)]

\* the packets formatted: 1 to MaxBytes bytes, of two contents
RawPackets ==
    { raw_of(n, 0, 1) : n \in 1 .. MaxBytes }
    \cup { raw_of(n, 171, 37) : n \in 1 .. MaxBytes }

DumpInit ==
    /\ dump_pc = "start"
    /\ raw_packet \in RawPackets
    /\ text_packet = <<>>

DumpStill ==
    /\ dump_pc = "start"
    /\ raw_packet = <<>>
    /\ text_packet = <<>>

\* what the formatting leaves alone
notDump == <<sockVars, portVars, callVars, hierVars, waitVars, codecVars,
            exportVars, loadVars, threadVars>>

\* lines 362-370 for one raw packet
format_text ==
    /\ dump_pc = "start"
    /\ text_packet' = text_from(raw_packet, 0)
    /\ dump_pc' = "done"
    /\ UNCHANGED raw_packet
    /\ UNCHANGED notDump

DumpNext == format_text

(* ------------------------ XenaCapture.get_packets --------------------- *)

\* an optional argument: <<>> is None, <<x>> is the value x
NoArg == <<>>
Some(x) == <<x>>

\* Python's truth value of an optional integer argument
truthy(arg) == arg # NoArg /\ arg[1] # 0

\* Python's truth value of an optional string argument
truthy_name(arg) == arg # NoArg /\ arg[1] # <<>>

\* what get_packets gives its caller: the error raised, or the list
\* returned, or None
GpValue(error, list, none) == [error |-> error, list |-> list, none |-> none]

\* XenaCaptureBufferType
CapTypes == { "raw", "text", "pcap" }

\* the device's reply to pc_packet for packet index: '0x' and the bytes
pc_packet(index) == <<48, 120>> \o raw_of(index + 1, 16 * index + 10, 7)

\* text.split(sep)[1]: what lies between the first sep and the next one
split_1(text, sep) ==
    LET a    == find(text, sep) + Len(sep) + 1
        rest == SubSeq(text, a, Len(text))
        b    == find(rest, sep)
    IN  IF b = -1 THEN rest ELSE SubSeq(rest, 1, b)

\* list(range(a, b))
range_list(a, b) == [k \in 1 .. Max({0, b - a}) |-> a + k - 1]

\* the strings of a list written one after the other
RECURSIVE written(_)
written(list) ==
    IF list = <<>> THEN <<>>
    ELSE Head(list) \o written(Tail(list))

\* open(name, 'w+') and the writes: the file exists with these contents
save(fs, name, contents) ==
    [n \in DOMAIN fs \cup {name} |-> IF n = name THEN contents ELSE fs[n]]

\* os.remove(name)
remove(fs, name) == [n \in DOMAIN fs \ {name} |-> fs[n]]

\* _save_captue: writes only when it is given a file name
save_captue(fs, file_name, list) ==
    IF truthy_name(file_name) THEN save(fs, file_name[1], written(list))
    ELSE fs

save_captue_effects(file_name) ==
    IF truthy_name(file_name) THEN << <<"write", file_name[1]>> >> ELSE <<>>

\* what the converter process does: exits with 0 having written the pcap
\* file, exits with 1 having written none, or cannot be started at all
ConverterOutcomes == { "exit 0", "exit 1", "OSError" }

GpArgs(from_index, to_index, cap_type, file_name, tshark) ==
    [from_index |-> from_index, to_index |-> to_index,
     cap_type |-> cap_type, file_name |-> file_name, tshark |-> tshark]

\* line 351: to_index if to_index else len(self.packets)
to_index_or_count(to_index, cobjs) ==
    IF truthy(to_index) THEN to_index[1]
    ELSE Cardinality(ids_by_type(packets(cobjs), "cappacket"))

\* the characters '.', '/' and '_', and the texts '.pcap' and '/ws'
Dot == 46
Underscore == 95
Ext_pcap == <<46, 112, 99, 97, 112>>
WsPath == <<47, 119, 115>>

\* the highest position of character c in text, or 0
last_index(text, c) == Max({0} \cup { k \in 1 .. Len(text) : text[k] = c })

\* os.path.splitext(path)[0]: the path without its extension, which starts
\* at the last dot of the last component unless only dots come before it
splitext_0(path) ==
    LET sep == last_index(path, Slash)
        dot == last_index(path, Dot)
    IN  IF dot > sep /\ \E k \in (sep + 1) .. (dot - 1) : path[k] # Dot
        THEN SubSeq(path, 1, dot - 1)
        ELSE path

\* a Tshark object is modelled by its ws_path, None or a path. Tshark's
\* __init__: ws_path if ws_path else self.shark_path, and shark_path is
\* None unless wireshark.exe is found
Tshark(ws_path, shark_path) ==
    IF truthy_name(ws_path) THEN ws_path ELSE shark_path

\* lines 25-27 of text_to_pcap: the pcap file the converter is given
pcap_file_of(text_file, pcap_file) ==
    IF pcap_file # <<>> THEN pcap_file
    ELSE splitext_0(text_file) \o Ext_pcap

\* Tshark.text_to_pcap: os.path.join raises TypeError on a ws_path of None;
\* subprocess.call's return value is dropped, and only a converter that
\* cannot be started raises
text_to_pcap(ws_path, outcome) ==
    IF ws_path = NoArg THEN "TypeError"
    ELSE IF outcome = "OSError" THEN "OSError"
    ELSE "ok"

\* XenaCapture.get_packets, with what the platform gives for shark_path and
\* what the converter does if it is run
get_packets(from_index, to_index, cap_type, file_name, tshark, shark_path, outcome) ==
    LET end      == to_index_or_count(to_index, cap_objects)
        indices  == range_list(from_index, end)
        \* self.packets is read on line 351 or in the loop's first round
        cobjs    == IF ~truthy(to_index) \/ indices # <<>>
                    THEN packets(cap_objects) ELSE cap_objects
        ids      == ids_by_type(cobjs, "cappacket")
        missing  == { k \in 1 .. Len(indices) : indices[k] \notin ids }
        reads    == IF missing = {} THEN indices
                    ELSE SubSeq(indices, 1, Max({ k \in 1 .. Len(indices) :
                                    \A m \in missing : k < m } \cup {0}))
        raw_packets  == [k \in 1 .. Len(reads) |->
                            split_1(pc_packet(reads[k]), <<48, 120>>)]
        text_packets == [k \in 1 .. Len(reads) |->
                            text_from(raw_packets[k], 0)]
    IN  /\ exports < MaxExports
        /\ exports' = exports + 1
        /\ gp_args' = GpArgs(from_index, to_index, cap_type, file_name,
                             tshark)
        /\ cap_objects' = cobjs
        /\ fetched' = reads
        /\ IF missing # {}
           THEN \* self.packets[index] of an index not in the dictionary
                /\ gp_pc' = "raised"
                /\ gp_value' = GpValue("KeyError", <<>>, FALSE)
                /\ effects' = <<>>
                /\ UNCHANGED files
           ELSE IF cap_type = "raw"
           THEN /\ gp_pc' = "returned"
                /\ gp_value' = GpValue("", raw_packets, FALSE)
                /\ files' = save_captue(files, file_name, raw_packets)
                /\ effects' = save_captue_effects(file_name)
           ELSE IF cap_type = "text"
           THEN /\ gp_pc' = "returned"
                /\ gp_value' = GpValue("", text_packets, FALSE)
                /\ files' = save_captue(files, file_name, text_packets)
                /\ effects' = save_captue_effects(file_name)
           ELSE IF file_name = NoArg
           THEN \* line 379: None + '_'
                /\ gp_pc' = "raised"
                /\ gp_value' = GpValue("TypeError", <<>>, FALSE)
                /\ effects' = <<>>
                /\ UNCHANGED files
           ELSE LET \* lines 376-378: tshark = Tshark('') if not tshark
                    ws_path   == IF tshark = NoArg
                                 THEN Tshark(Some(<<>>), shark_path)
                                 ELSE tshark[1]
                    name      == file_name[1]
                    temp_file == name \o <<Underscore>>
                    temp      == Some(temp_file)
                    saved     == save_captue(files, temp, text_packets)
                    pcap_file == pcap_file_of(temp_file, name)
                    converted == IF outcome = "exit 0"
                                 THEN save(saved, pcap_file, <<"pcap">>)
                                 ELSE saved
                    call      == <<"text_to_pcap", temp_file, name, outcome>>
                    raised    == text_to_pcap(ws_path, outcome)
                IN  IF raised = "TypeError"
                    THEN \* before the converter is run
                         /\ gp_pc' = "raised"
                         /\ gp_value' = GpValue("TypeError", <<>>, FALSE)
                         /\ files' = saved
                         /\ effects' = save_captue_effects(temp)
                    ELSE IF raised = "OSError"
                    THEN /\ gp_pc' = "raised"
                         /\ gp_value' = GpValue("OSError", <<>>, FALSE)
                         /\ files' = converted
                         /\ effects' = save_captue_effects(temp)
                                         \o <<call>>
                    ELSE /\ gp_pc' = "returned"
                         /\ gp_value' = GpValue("", <<>>, TRUE)
                         /\ files' = remove(converted, temp_file)
                         /\ effects' = save_captue_effects(temp)
                                         \o <<call, <<"remove", temp_file>> >>
        /\ UNCHANGED <<parent_objects, dev_filters, dev_tplds, dev_packets,
                       changes>>
        /\ UNCHANGED <<sockVars, portVars, callVars, waitVars, codecVars,
                       dumpVars, loadVars, threadVars>>

\* the arguments callers give: file names None, '' and 'cap'; tshark None,
\* or a Tshark object whose ws_path is None or '/ws'
FromIndices == 0 .. 1
ToIndices == { NoArg } \cup { Some(n) : n \in 0 .. MaxPackets }
Name_cap == <<99, 97, 112>>
FileNames == { NoArg, Some(<<>>), Some(Name_cap) }
WsPaths == { NoArg, Some(WsPath) }
TsharkArgs == { NoArg } \cup { Some(w) : w \in WsPaths }

get_packets_call ==
    \E from_index \in FromIndices, to_index \in ToIndices,
       cap_type \in CapTypes, file_name \in FileNames :
        \* tshark is used in pcap mode only, shark_path when no tshark is
        \* given, and the converter is run when ws_path is a path
        \E tshark \in IF cap_type = "pcap" THEN TsharkArgs ELSE { NoArg } :
        \E shark_path \in IF cap_type = "pcap" /\ tshark = NoArg
                           THEN WsPaths ELSE { NoArg } :
        \E outcome \in IF /\ cap_type = "pcap"
                          /\ (tshark = Some(Some(WsPath))
                              \/ shark_path = Some(WsPath))
                       THEN ConverterOutcomes ELSE { "exit 0" } :
            get_packets(from_index, to_index, cap_type, file_name, tshark,
                        shark_path, outcome)

\* a capture whose packets were not read yet, on a device that captured
\* some number of packets
ExportInit ==
    /\ parent_objects = { ThePort }
    /\ cap_objects = {}
    /\ dev_filters = {}
    /\ dev_tplds = {}
    /\ dev_packets \in PacketCounts
    /\ changes = 0
    /\ gp_pc = "idle"
    /\ gp_args = GpArgs(0, NoArg, "text", NoArg, NoArg)
    /\ gp_value = GpValue("", <<>>, TRUE)
    /\ fetched = <<>>
    /\ files = << >>
    /\ effects = <<>>
    /\ exports = 0

ExportStill ==
    /\ gp_pc = "idle"
    /\ gp_args = GpArgs(0, NoArg, "text", NoArg, NoArg)
    /\ gp_value = GpValue("", <<>>, TRUE)
    /\ fetched = <<>>
    /\ files = << >>
    /\ effects = <<>>
    /\ exports = 0

ExportNext == get_packets_call

(* -------------------------- XenaPort.load_config ---------------------- *)

\* str.startswith(prefix)
startswith(text, prefix) ==
    /\ Len(text) >= Len(prefix)
    /\ SubSeq(text, 1, Len(prefix)) = prefix

\* the character ';'
Semicolon == <<59>>

\* the lines a configuration file is made of: ';comment', 'P_RESET',
\* 'bad_cmd', ' ;' and the empty line
Line_comment == <<59, 99, 111, 109, 109, 101, 110, 116>>
Line_P_RESET == <<80, 95, 82, 69, 83, 69, 84>>
Line_bad_cmd == <<98, 97, 100, 95, 99, 109, 100>>
Line_indented == <<32, 59>>
Line_empty == <<>>

ConfigLines == { Line_comment, Line_P_RESET, Line_bad_cmd, Line_indented,
                 Line_empty }

\* the sequences of at most n elements of S
SeqUpTo(S, n) == UNION { [1 .. k -> S] : k \in 0 .. n }

\* what the send_command calls of one load_config meet: the lines the
\* device rejects (XenaCommandError) and the line, if any, at which the
\* connection fails (any other exception); 0 is none
LcEnv(rejected, fail_at) == [rejected |-> rejected, fail_at |-> fail_at]

Sent(line, text) == [line |-> line, text |-> text]

LcRun(sent_, logged_, outcome) ==
    [sent |-> sent_, logged |-> logged_, outcome |-> outcome]

\* the loop of lines 89-94 from line k on, with a command error ending it
RECURSIVE load_from_stop_at_error(_, _, _)
load_from_stop_at_error(cmds, k, env) ==
    IF k > Len(cmds) THEN LcRun(<<>>, <<>>, "returned")
    ELSE IF startswith(cmds[k], Semicolon)
    THEN load_from_stop_at_error(cmds, k + 1, env)
    ELSE IF k = env.fail_at
    THEN LcRun(<<Sent(k, cmds[k])>>, <<>>, "raised")
    ELSE IF k \in env.rejected
    THEN LcRun(<<Sent(k, cmds[k])>>, <<k>>, "returned")
    ELSE LET rest == load_from_stop_at_error(cmds, k + 1, env)
         IN  LcRun(<<Sent(k, cmds[k])>> \o rest.sent, rest.logged,
                   rest.outcome)

\* the loop of lines 89-94 from line k on: what is sent, what is logged and
\* how the loop ends
RECURSIVE load_from(_, _, _)
load_from(cmds, k, env) ==
    IF k > Len(cmds) THEN LcRun(<<>>, <<>>, "returned")
    ELSE IF startswith(cmds[k], Semicolon)
    THEN load_from(cmds, k + 1, env)
    ELSE IF k = env.fail_at
    THEN \* not a XenaCommandError: it leaves load_config
         LcRun(<<Sent(k, cmds[k])>>, <<>>, "raised")
    ELSE LET rest == load_from(cmds, k + 1, env)
         IN  LcRun(<<Sent(k, cmds[k])>> \o rest.sent,
                   (IF k \in env.rejected THEN <<k>> ELSE <<>>)
                       \o rest.logged,
                   rest.outcome)

LoadInit ==
    /\ commands \in SeqUpTo(ConfigLines, MaxLines)
    /\ lc_pc = "idle"
    /\ lc_env = LcEnv({}, 0)
    /\ lc_sent = <<>>
    /\ lc_logged = <<>>

LoadStill ==
    /\ commands = <<>>
    /\ lc_pc = "idle"
    /\ lc_env = LcEnv({}, 0)
    /\ lc_sent = <<>>
    /\ lc_logged = <<>>

\* what load_config leaves alone
notLoad == <<sockVars, portVars, callVars, hierVars, waitVars, codecVars,
            dumpVars, exportVars, threadVars>>

\* XenaPort.load_config on the file whose lines are commands
load_config ==
    /\ lc_pc = "idle"
    /\ \E rejected \in SUBSET (1 .. Len(commands)),
          fail_at \in 0 .. Len(commands) :
          LET env == LcEnv(rejected, fail_at)
              run == load_from(commands, 1, env)
          IN  /\ lc_env' = env
              /\ lc_sent' = run.sent
              /\ lc_logged' = run.logged
              /\ lc_pc' = run.outcome
    /\ UNCHANGED commands
    /\ UNCHANGED notLoad

LoadNext == load_config

(* ------------------ XenaPort.streams read by threads ------------------ *)

Threads == 1 .. MaxThreads

ThreadStill ==
    /\ tpc = [th \in Threads |-> "idle"]
    /\ populating = {}
    /\ todo = [th \in Threads |-> <<>>]
    /\ read_ids = [th \in Threads |-> <<>>]
    /\ loaded = [th \in Threads |-> 0]
    /\ made = [x \in StreamIndices |-> 0]
    /\ advances = [th \in Threads |-> 0]
    /\ got = [th \in Threads |-> {}]

\* what a thread inside the streams property leaves alone
notThreads == <<sockVars, callVars, hierVars, waitVars, codecVars, dumpVars,
               exportVars, loadVars>>

\* the elements of a sequence
elements(list) == { list[k] : k \in 1 .. Len(list) }

\* line 253: if not self.get_objects_by_type('stream')
check(th) ==
    /\ tpc[th] = "idle"
    /\ IF ids_by_type(objects, "stream") # {}
       THEN /\ tpc' = [tpc EXCEPT ![th] = "return"]
            /\ UNCHANGED populating
       ELSE /\ tpc' = [tpc EXCEPT ![th] = "read"]
            /\ populating' = populating \cup {th}
    /\ UNCHANGED <<todo, read_ids, loaded, made, advances, got>>
    /\ UNCHANGED portVars
    /\ UNCHANGED notThreads

\* lines 254-255: tpld_ids = [] and self.get_attribute('ps_indices').split()
read_indices(th) ==
    /\ tpc[th] = "read"
    /\ todo' = [todo EXCEPT ![th] = Ascending(DOMAIN dev_streams)]
    /\ read_ids' = [read_ids EXCEPT ![th] = <<>>]
    /\ tpc' = [tpc EXCEPT ![th] = "loop"]
    /\ UNCHANGED <<populating, loaded, made, advances, got>>
    /\ UNCHANGED portVars
    /\ UNCHANGED notThreads

\* line 256 for one index, skipping an index that has a child by now
create_if_absent(th) ==
    /\ tpc[th] = "loop"
    /\ todo[th] # <<>>
    /\ LET index == Head(todo[th])
       IN  /\ objects' = register(objects, "stream", index)
           /\ made' = IF <<"stream", index>> \in objects THEN made
                      ELSE [made EXCEPT ![index] = @ + 1]
    /\ tpc' = [tpc EXCEPT ![th] = "comment"]
    /\ UNCHANGED <<populating, todo, read_ids, loaded, advances, got>>
    /\ UNCHANGED <<next_tpld_id, dev_streams, created, found, failures,
                   presult>>
    /\ UNCHANGED notThreads

\* line 256 for one index: a XenaStream is constructed, which puts it into
\* the port's objects under its reference
create(th) ==
    /\ tpc[th] = "loop"
    /\ todo[th] # <<>>
    /\ LET index == Head(todo[th])
       IN  /\ objects' = register(objects, "stream", index)
           /\ made' = [made EXCEPT ![index] = @ + 1]
    /\ tpc' = [tpc EXCEPT ![th] = "comment"]
    /\ UNCHANGED <<populating, todo, read_ids, loaded, advances, got>>
    /\ UNCHANGED <<next_tpld_id, dev_streams, created, found, failures,
                   presult>>
    /\ UNCHANGED notThreads

\* lines 257-259: the new stream's ps_comment is read from the device and
\* kept as its name; the stream is in the port's objects by now
read_comment(th) ==
    /\ tpc[th] = "comment"
    /\ tpc' = [tpc EXCEPT ![th] = "tpldid"]
    /\ UNCHANGED <<populating, todo, read_ids, loaded, made, advances, got>>
    /\ UNCHANGED portVars
    /\ UNCHANGED notThreads

\* line 260: the new stream's ps_tpldid is read from the device and
\* appended to tpld_ids, and the loop goes to the next index
read_tpldid(th) ==
    /\ tpc[th] = "tpldid"
    /\ LET index == Head(todo[th])
       IN  /\ read_ids' = [read_ids EXCEPT
                              ![th] = Append(@, dev_streams[index])]
           /\ found' = found \cup { dev_streams[index] }
    /\ todo' = [todo EXCEPT ![th] = Tail(@)]
    /\ tpc' = [tpc EXCEPT ![th] = "loop"]
    /\ UNCHANGED <<populating, loaded, made, advances, got>>
    /\ UNCHANGED <<next_tpld_id, objects, dev_streams, created,
                   failures, presult>>
    /\ UNCHANGED notThreads

\* lines 261-262: if tpld_ids, the right-hand side reads next_tpld_id
load(th) ==
    /\ tpc[th] = "loop"
    /\ todo[th] = <<>>
    /\ IF read_ids[th] # <<>>
       THEN /\ loaded' = [loaded EXCEPT ![th] = next_tpld_id]
            /\ tpc' = [tpc EXCEPT ![th] = "store"]
       ELSE /\ tpc' = [tpc EXCEPT ![th] = "return"]
            /\ UNCHANGED loaded
    /\ UNCHANGED <<populating, todo, read_ids, made, advances, got>>
    /\ UNCHANGED portVars
    /\ UNCHANGED notThreads

\* line 262: XenaStream.next_tpld_id = max([...] + [...]) + 1 is assigned
store(th) ==
    /\ tpc[th] = "store"
    /\ next_tpld_id' = Max({loaded[th]} \cup elements(read_ids[th])) + 1
    /\ advances' = [advances EXCEPT ![th] = @ + 1]
    /\ tpc' = [tpc EXCEPT ![th] = "return"]
    /\ UNCHANGED <<populating, todo, read_ids, loaded, made, got>>
    /\ UNCHANGED <<objects, dev_streams, created, found, failures,
                   presult>>
    /\ UNCHANGED notThreads

\* line 263: the dictionary of the streams cached now
return(th) ==
    /\ tpc[th] = "return"
    /\ got' = [got EXCEPT ![th] = ids_by_type(objects, "stream")]
    /\ tpc' = [tpc EXCEPT ![th] = "done"]
    /\ UNCHANGED <<populating, todo, read_ids, loaded, made, advances>>
    /\ UNCHANGED portVars
    /\ UNCHANGED notThreads

\* each thread reads port.streams once
ThreadNext ==
    \E th \in Threads :
        \/ check(th)
        \/ read_indices(th)
        \/ create(th)
        \/ read_comment(th)
        \/ read_tpldid(th)
        \/ load(th)
        \/ store(th)
        \/ return(th)

(* --------------------------- specifications --------------------------- *)

\* the port's parent holds the port; the port has no filter, tracker or
\* capture yet and the device reports none
HierStill ==
    /\ parent_objects = { ThePort }
    /\ cap_objects = {}
    /\ dev_filters = {}
    /\ dev_tplds = {}
    /\ dev_packets = 0
    /\ changes = 0

\* one BaseSocket object; the port is not used
InitSocket == SocketInit /\ PortStill /\ HierStill /\ WaitStill /\ CodecStill
            /\ DumpStill /\ ExportStill /\ LoadStill
            /\ ThreadStill

\* one XenaPort; its transport is not modelled below the commands' effects
InitPort == SocketInit /\ PortInit /\ HierStill /\ WaitStill /\ CodecStill
            /\ DumpStill /\ ExportStill /\ LoadStill
            /\ ThreadStill

\* one XenaPort whose streams and filters are added and deleted
InitIndex == SocketInit /\ PortInit /\ IndexInit /\ WaitStill /\ CodecStill
            /\ DumpStill /\ ExportStill /\ LoadStill
            /\ ThreadStill

\* one XenaPort whose streams are read by several threads
InitThreads == SocketInit /\ PortInit /\ HierStill /\ WaitStill /\ CodecStill
            /\ DumpStill /\ ExportStill /\ LoadStill
            /\ ThreadStill

\* one XenaPort with its streams, filters, trackers and capture
InitHier == SocketInit /\ PortInit /\ HierInit /\ WaitStill /\ CodecStill
            /\ DumpStill /\ ExportStill /\ LoadStill
            /\ ThreadStill

\* one command line built for an object, and its reply parsed
InitCodec == SocketInit /\ PortStill /\ HierStill /\ WaitStill /\ CodecInit
            /\ DumpStill /\ ExportStill /\ LoadStill
            /\ ThreadStill

\* the packets of one capture exported
InitExport == SocketInit /\ PortStill /\ WaitStill /\ CodecStill /\ DumpStill
              /\ ExportInit /\ LoadStill
            /\ ThreadStill

\* one configuration file loaded into the port
InitLoad == SocketInit /\ PortStill /\ HierStill /\ WaitStill /\ CodecStill
            /\ DumpStill /\ ExportStill /\ LoadInit
            /\ ThreadStill

\* one captured packet formatted as text
InitDump == SocketInit /\ PortStill /\ HierStill /\ WaitStill /\ CodecStill
            /\ DumpInit /\ ExportStill /\ LoadStill
            /\ ThreadStill

\* one object waiting for a state of one of its attributes
InitWait == SocketInit /\ PortStill /\ HierStill /\ WaitStill /\ CodecStill
            /\ DumpStill /\ ExportStill /\ LoadStill
            /\ ThreadStill

SpecSocket == InitSocket /\ [][SocketNext]_vars

SpecPort == InitPort /\ [][PortNext]_vars

SpecWait == InitWait /\ [][WaitNext]_vars

SpecHier == InitHier /\ [][HierNext]_vars

SpecIndex == InitIndex /\ [][IndexNext]_vars

SpecThreads == InitThreads /\ [][ThreadNext]_vars

SpecCodec == InitCodec /\ [][CodecNext]_vars

SpecDump == InitDump /\ [][DumpNext]_vars

SpecExport == InitExport /\ [][ExportNext]_vars

SpecLoad == InitLoad /\ [][LoadNext]_vars

(* ------------------- properties of the transport ---------------------- *)

\* A chunk holds one of the two markers somewhere (stated without find)
HasSentinel(chunk) ==
    \E k \in 1 .. (Len(chunk) - 3) :
        SubSeq(chunk, k, k + 3) \in {MarkerA, MarkerB}

\* recv() calls of the last readReply that raised
NumFails == Cardinality({ j \in 1 .. Len(trace) : trace[j] = Fail })

\* position j of the trace is the first recv() of an attempt
AttemptStart(j) == j = 1 \/ trace[j - 1] = Fail

\* the last readReply left its loop with a chunk
LoopLeftWithChunk ==
    /\ result.op = "readReply"
    /\ trace # <<>>
    /\ trace[Len(trace)] # Fail
    /\ pc \in {"decode", "idle"}

TransportErrors == {"socket.error", "IOError"}

\* C1 (as claimed): readReply gives up only after 5 failed reads, and then the
\* transport is disconnected; with fewer than 5 failed reads followed by a
\* successful one it returns that read's payload and stays connected.
C1_FiveReadAttempts ==
    /\ (result.op = "readReply" /\ result.outcome = "IOError")
          => (NumFails = 5 /\ ~connected)
    /\ (result.op = "readReply" /\ result.outcome = "ok")
          => /\ NumFails < 5
             /\ connected
             /\ result.value = decode(trace[Len(trace)]).text

\* C2 (as claimed): a reply that cannot be decoded makes readReply raise a
\* transport error, and after every transport error the transport is
\* disconnected.
C2_DecodeFailureDisconnects ==
    /\ (LoopLeftWithChunk /\ pc = "idle" /\ ~decode(trace[Len(trace)]).ok)
          => (result.outcome \in TransportErrors /\ ~connected)
    /\ result.outcome \in TransportErrors => ~connected

\* C3: sendCommand on a disconnected transport raises, writes nothing and
\* changes nothing; a failed write on a connected transport leaves it
\* disconnected with its socket closed, and nothing written, when the error
\* reaches the caller.
C3_FailedSendDisconnects ==
    [][ result'.op = "sendCommand" =>
          IF ~connected
          THEN /\ result'.outcome = "socket.error"
               /\ UNCHANGED <<connected, sock, nsock, okSocks, closes, wire>>
          ELSE \/ /\ result'.outcome = "ok"
                  /\ Len(wire') = Len(wire) + 1
                  /\ UNCHANGED <<connected, sock, closes>>
               \/ /\ result'.outcome = "socket.error"
                  /\ ~connected'
                  /\ closes'[sock] = closes[sock] + 1
                  /\ UNCHANGED <<sock, wire>> ]_vars

C3_Witness ==
    /\ result.op = "sendCommand"
    /\ result.msg = "Fail to send command"
    /\ ~connected
    /\ sock # None
    /\ closes[sock] = 1

\* C4 (as claimed): a chunk with a marker is never what readReply returns;
\* after such a chunk exactly one more read is made and its chunk is
\* returned; a first chunk without a marker is returned after a single read.
C4_MarkerChunkNeverReturned ==
    pc = "decode" =>
        /\ ~HasSentinel(reply)
        /\ \A j \in 1 .. Len(trace) :
              (trace[j] # Fail /\ HasSentinel(trace[j]))
                  => (j = Len(trace) - 1 /\ reply = trace[j + 1])
        /\ (trace[1] # Fail /\ ~HasSentinel(trace[1]))
              => (Len(trace) = 1 /\ reply = trace[1])

\* C4 (amended): in every attempt, a first chunk with a marker is not
\* returned and is followed by exactly one more read in that attempt; when
\* that read succeeds its chunk is what readReply returns, marker or not. A
\* first chunk without a marker is returned after that single read.
C4_MarkerSkippedOncePerAttempt ==
    /\ \A j \in 1 .. Len(trace) :
          trace[j] # Fail =>
             IF AttemptStart(j)
             THEN IF HasSentinel(trace[j])
                  THEN j = Len(trace) => pc = "recv2"
                  ELSE /\ j = Len(trace)
                       /\ reply = trace[j]
                       /\ pc \in {"decode", "idle"}
             ELSE /\ AttemptStart(j - 1)
                  /\ HasSentinel(trace[j - 1])
                  /\ j = Len(trace)
                  /\ reply = trace[j]
                  /\ pc \in {"decode", "idle"}
    /\ (result.op = "readReply" /\ result.outcome = "ok")
          => /\ LoopLeftWithChunk
             /\ result.value = decode(trace[Len(trace)]).text

C4_Witness ==
    /\ result.op = "readReply"
    /\ result.outcome = "ok"
    /\ Len(trace) = 3
    /\ trace[1] = Fail
    /\ HasSentinel(trace[2])
    /\ HasSentinel(trace[3])
    /\ result.value = decode(trace[3]).text

\* C5: connect on a connected transport creates no socket, keeps the socket
\* and the connection, and raises nothing.
C5_ConnectIdempotent ==
    [][ (result'.op = "connect" /\ connected) =>
          /\ result'.outcome = "ok"
          /\ connected'
          /\ UNCHANGED <<sock, nsock, okSocks, closes, wire>> ]_vars

C5_Witness ==
    /\ result.op = "connect"
    /\ result.msg = "Connect() on a connected socket"
    /\ connected
    /\ sock # None
    /\ closes[sock] = 0

\* Every socket whose connect() succeeded has been closed once, unless it is
\* the socket of the live connection, which has not been closed; no other
\* socket has been closed; a torn-down object holds no connection.
CloseAccounting ==
    /\ \A s \in 1 .. MaxSockets :
          closes[s] = IF s \in okSocks /\ ~(connected /\ sock = s)
                      THEN 1 ELSE 0
    /\ deleted => ~connected

\* C6: disconnect on a disconnected transport closes nothing and changes
\* nothing, and the socket of every successful connect is closed exactly once
\* (never twice, and by the time the object is torn down at the latest).
C6_SocketClosedOnce ==
    /\ []CloseAccounting
    /\ [][ (result'.op = "disconnect" /\ ~connected) =>
             UNCHANGED <<connected, sock, closes>> ]_vars

C6_Witness ==
    /\ deleted
    /\ Cardinality(okSocks) >= 2
    /\ \A s \in okSocks : closes[s] = 1
    /\ result.op = "__del__"

(* ---------------- properties of the tpld-id allocation ---------------- *)

\* add_stream was the last operation and it returned
Added == presult.op = "add_stream" /\ presult.outcome = "ok"

\* it was called without a tpld id
AutoAdded == Added /\ presult.arg = <<>>

\* the session's first three streams were added with ids 5, 3 and, just
\* now, none; no stream was discovered on the device and no round trip raised
FiveThreeNone ==
    /\ Len(created) = 3
    /\ found = {}
    /\ failures = 0
    /\ created[1] = 5
    /\ created[2] = 3
    /\ AutoAdded

C8_NoTwoStreamsShareTpldId ==
    \A j, k \in 1 .. Len(created) :
        j # k => created[j] # created[k]

\* C9: the id add_stream assigns when called without a tpld id is greater
\* than every id add_stream assigned before and every id read from a
\* discovered stream.
C9_AutoIdAboveEveryKnownId ==
    AutoAdded =>
        /\ created[Len(created)] = presult.tpld
        /\ \A k \in 1 .. (Len(created) - 1) : created[k] < presult.tpld
        /\ \A id \in found : id < presult.tpld

\* C10: no step lowers the tpld-id counter.
C10_CounterNeverDecreases ==
    [][ next_tpld_id' >= next_tpld_id ]_vars

C10_Witness ==
    /\ presult.op = "reset"
    /\ objects = {}
    /\ Len(created) >= 2
    /\ next_tpld_id >= 7

(* -------------------- properties of wait_for_states ------------------- *)

\* the last wait_for_states call is over
WaitOver == wpc = "idle" /\ wresult.outcome \in {"ok", "TgnError"}

\* no get_attribute of the call returned a state it accepts
NeverAccepted ==
    \A k \in 1 .. Len(observed) : ~accepted(observed[k], states)

\* C13: wait_for_states with timeout T on an attribute that never reports
\* an accepted state raises the timeout error after observing the attribute
\* T times, give or take one, having waited one second after each of the
\* loop's polls, T times in all; with T = 3 and IN_SYNC it observes the
\* attribute between 2 and 4 times and raises.
C13_TimeoutAfterTPolls ==
    (WaitOver /\ NeverAccepted) =>
        /\ wresult.outcome = "TgnError"
        /\ wresult.seconds = timeout
        /\ Len(observed) \in (timeout - 1) .. (timeout + 1)
        /\ sleeps = timeout
        /\ round = timeout
        /\ (timeout = 3 /\ states = <<IN_SYNC>>) => Len(observed) \in 2 .. 4

C13_Witness ==
    /\ WaitOver
    /\ NeverAccepted
    /\ timeout = 3
    /\ states = <<IN_SYNC>>
    /\ wresult.outcome = "TgnError"
    /\ sleeps = 3
    /\ Len(observed) = 4

\* C19 (as claimed): the state the timeout error carries is the state the
\* loop's last poll observed, and is never an accepted state.
C19_ErrorCarriesLastPolledState ==
    wresult.outcome = "TgnError" =>
        /\ ~accepted(wresult.state, states)
        /\ round > 0 => wresult.state = observed[round]

\* C19 (amended): the state the timeout error carries is read with one more
\* get_attribute after the loop, so it is the last state the call observed;
\* every state the loop polled is not an accepted one.
C19_ErrorCarriesStateReadAfterLoop ==
    wresult.outcome = "TgnError" =>
        /\ Len(observed) = round + 1
        /\ wresult.state = observed[round + 1]
        /\ \A k \in 1 .. round : ~accepted(observed[k], states)

C19_Witness ==
    /\ wresult.outcome = "TgnError"
    /\ timeout = 2
    /\ round = 2
    /\ states = <<IN_SYNC>>
    /\ observed[2] = NO_SYNC
    /\ wresult.state = in_sync
    /\ accepted(wresult.state, states)

(* ---------------- properties of the port's child caches --------------- *)

\* the step is an operation of the port, not a change of the device
PortStep(op) == presult'.op = op /\ changes' = changes

\* the step sends nothing, creates no child and leaves the counter alone
QuietStep ==
    /\ calls' = <<>>
    /\ UNCHANGED <<objects, cap_objects, next_tpld_id, dev_streams,
                   dev_filters, dev_tplds, dev_packets>>

\* C11: reading streams, filters or captured packets while the cache of that
\* child type is not empty sends no command, creates no child, leaves the
\* tpld counter unchanged and returns exactly the cached children by id.
C11_CachedAccessIsLocal ==
    [][ /\ (PortStep("streams") /\ ids_by_type(objects, "stream") # {})
            => (QuietStep /\ returned' = by_id(objects, "stream"))
        /\ (PortStep("filters") /\ ids_by_type(objects, "xena_filter") # {})
            => (QuietStep /\ returned' = by_id(objects, "xena_filter"))
        /\ (PortStep("packets") /\ ids_by_type(cap_objects, "cappacket") # {})
            => (QuietStep /\ returned' = by_id(cap_objects, "cappacket"))
      ]_vars

\* filters were read from the cache although the device reports other ones
\* by now, with streams and packets cached as well
C11_Witness ==
    /\ presult.op = "filters"
    /\ calls = <<>>
    /\ DOMAIN returned = {0}
    /\ dev_filters = {0, 1}
    /\ ids_by_type(objects, "stream") # {}
    /\ ids_by_type(cap_objects, "cappacket") # {}

\* C12 (as claimed): every read of the tplds collection returns a map whose
\* ids are exactly the ids of the device's pr_tplds reply, and the port
\* caches no other tracker.
C12_TpldsAreTheDevicesTrackers ==
    [][ PortStep("tplds") =>
           /\ DOMAIN returned' = dev_tplds
           /\ ids_by_type(objects', "tpld") = dev_tplds ]_vars

\* C20: reset empties the whole local child cache, sends the one command
\* p_reset and nothing else, and leaves the tpld-id counter unchanged.
C20_ResetClearsCacheWithOneCommand ==
    [][ PortStep("reset") =>
           /\ objects' = {}
           /\ cap_objects' = {}
           /\ calls' = << Call("send_command", ThePort, "p_reset") >>
           /\ next_tpld_id' = next_tpld_id ]_vars

\* a reset after streams were discovered and the counter moved, which the
\* device rejected: nothing is cached, the streams are still on the device
C20_Witness ==
    /\ presult.op = "reset"
    /\ presult.outcome = "error"
    /\ objects = {}
    /\ found # {}
    /\ next_tpld_id > 0
    /\ DOMAIN dev_streams # {}
    /\ Len(calls) = 1

\* C21: an add_stream or add_filter gives the new child an index, the
\* number of children of that type cached, that no cached child of that
\* type has: the cache grows by one child and none is replaced.
C21_NewIndexIsFree ==
    [][ /\ PortStep("add_stream")
            => LET ids == ids_by_type(streams(Here).objects, "stream")
               IN  /\ presult'.index = Cardinality(ids)
                   /\ presult'.index \notin ids
                   /\ ids_by_type(objects', "stream")
                          = ids \cup {presult'.index}
        /\ PortStep("add_filter")
            => LET ids == ids_by_type(filters(objects), "xena_filter")
               IN  /\ presult'.index = Cardinality(ids)
                   /\ presult'.index \notin ids
                   /\ ids_by_type(objects', "xena_filter")
                          = ids \cup {presult'.index}
      ]_vars

\* the last operation was a reset whose p_reset failed
ResetFailed == presult.op = "reset" /\ presult.outcome = "error"

tail_of(args) == IF args = <<>> THEN <<>> ELSE Tail(spaced(args))

\* C14 (as claimed): for both variants, _extract_return applied to what
\* _build_index_command built, or to the device's upper-cased echo of it,
\* returns exactly the argument tail of that line, the command being matched
\* whatever its case.
C14_ExtractReturnsArgumentTail ==
    codec_pc = "extracted" =>
        extracted = IF echoed THEN upper(tail_of(arguments))
                    ELSE tail_of(arguments)

(* ----------------------- properties of the hex dump ------------------- *)

\* the bytes of the raw packet, and the lines its dump should have
DumpBytes == Len(raw_packet) \div 2
DumpLines == (DumpBytes + 15) \div 16

\* the six hexadecimal digits of n, most significant first
OffsetDigits(n) ==
    [k \in 1 .. 6 |-> hex_digit((n \div (16 ^ (6 - k))) % 16)]

\* C15: the text of a raw packet of N bytes (N >= 1) is made of ceil(N/16)
\* lines, each begun by a newline and starting with the six-digit
\* hexadecimal offset of its first byte (0, 16, 32, ...); every line but
\* the last holds 16 byte pairs separated by single spaces, the last holds
\* the remaining N - 16 * (ceil(N/16) - 1), and the pairs in order are the
\* input.
C15_HexDumpLines ==
    dump_pc = "done" =>
        LET pieces == split(text_packet, Newline)
        IN  /\ Len(pieces) = DumpLines + 1
            /\ pieces[1] = <<>>
            /\ \A j \in 1 .. DumpLines :
                  LET line  == pieces[j + 1]
                      pairs == split(SubSeq(line, 8, Len(line)), Space)
                      count == IF j < DumpLines THEN 16
                               ELSE DumpBytes - 16 * (DumpLines - 1)
                  IN  /\ SubSeq(line, 1, 6) = OffsetDigits(16 * (j - 1))
                      /\ line[7] = Space
                      /\ Len(pairs) = count
                      /\ \A f \in 1 .. count :
                            LET b == 16 * (j - 1) + (f - 1)
                            IN  pairs[f] = << raw_packet[2 * b + 1],
                                              raw_packet[2 * b + 2] >>

C15_Witness ==
    /\ dump_pc = "done"
    /\ DumpBytes = 33
    /\ DumpLines = 3
    /\ Len(text_packet) = 3 * 8 + 33 * 3 - 3
    /\ SubSeq(text_packet, 1, 8) = <<Newline, 48, 48, 48, 48, 48, 48, Space>>

(* ----------------------- properties of get_packets -------------------- *)

\* the converter invocations of the last get_packets
ConverterCalls == SelectSeq(effects, LAMBDA e : e[1] = "text_to_pcap")

\* C16: a get_packets that returns has fetched exactly the packets with
\* from_index <= index < to_index, in ascending order, for every to_index
\* supplied, 0 included; the packet count the device reports stands for
\* to_index only when none is supplied.
C16_FetchesRequestedRange ==
    gp_pc = "returned" =>
        fetched = range_list(gp_args.from_index,
                             IF gp_args.to_index # NoArg
                             THEN gp_args.to_index[1]
                             ELSE dev_packets)

\* C17: in pcap mode, a converter that exits with a non-zero status makes
\* get_packets fail with an error, and the converter is invoked once only.
C17_ConverterFailureIsFatal ==
    (/\ gp_args.cap_type = "pcap"
     /\ \E k \in 1 .. Len(ConverterCalls) : ConverterCalls[k][4] = "exit 1")
        => (gp_pc = "raised" /\ Len(ConverterCalls) = 1)

\* C23: in pcap mode get_packets writes the text dump to the temporary file
\* before it invokes the converter with (temporary file, output file), and
\* the temporary file does not exist when get_packets is over, whether it
\* returned or the invocation of the converter raised.
C23_TemporaryFileIsGone ==
    (gp_pc # "idle" /\ gp_args.cap_type = "pcap" /\ effects # <<>>)
        => LET name == gp_args.file_name[1]
               temp == name \o <<Underscore>>
           IN  /\ effects[1] = <<"write", temp>>
               /\ Len(effects) >= 2 =>
                      /\ effects[2][1] = "text_to_pcap"
                      /\ effects[2][2] = temp
                      /\ effects[2][3] = name
               /\ temp \notin DOMAIN files

(* ----------------------- properties of load_config -------------------- *)

\* the lines of the file that do not start with ';', in file order
RECURSIVE NonComments(_, _)
NonComments(cmds, k) ==
    IF k > Len(cmds) THEN <<>>
    ELSE (IF cmds[k] # <<>> /\ cmds[k][1] = 59 THEN <<>> ELSE <<k>>)
         \o NonComments(cmds, k + 1)

\* the file of the scenario
ScenarioFile == <<Line_comment, Line_P_RESET, Line_bad_cmd>>

\* C18: load_config sends the lines that do not start with ';' verbatim,
\* each once and in file order, and never a line that starts with ';'; a
\* line the device rejects is logged, does not make load_config raise and
\* does not keep any later line from being sent, so that a load_config
\* whose connection holds sends them all and returns; for the file
\* ';comment', 'P_RESET', 'bad_cmd' with bad_cmd rejected it sends
\* 'P_RESET', then 'bad_cmd', logs the latter and returns.
C18_LoadConfigSendsEveryCommand ==
    lc_pc # "idle" =>
        LET due   == NonComments(commands, 1)
            fails == \E j \in 1 .. Len(due) : due[j] = lc_env.fail_at
        IN  /\ Len(lc_sent) <= Len(due)
            /\ \A j \in 1 .. Len(lc_sent) :
                  /\ lc_sent[j].line = due[j]
                  /\ lc_sent[j].text = commands[due[j]]
                  /\ lc_sent[j].text = <<>> \/ lc_sent[j].text[1] # 59
            /\ ~fails => lc_pc = "returned" /\ Len(lc_sent) = Len(due)
            /\ fails => /\ lc_pc = "raised"
                        /\ lc_sent[Len(lc_sent)].line = lc_env.fail_at
            /\ \A j \in 1 .. Len(lc_sent) :
                  (lc_sent[j].line \in lc_env.rejected
                   /\ lc_sent[j].line # lc_env.fail_at)
                  <=> (\E l \in 1 .. Len(lc_logged) :
                          lc_logged[l] = lc_sent[j].line)
            /\ (commands = ScenarioFile /\ lc_env = LcEnv({3}, 0))
                  => /\ lc_sent = << Sent(2, Line_P_RESET),
                                     Sent(3, Line_bad_cmd) >>
                     /\ lc_logged = <<3>>
                     /\ lc_pc = "returned"

C18_Witness ==
    /\ commands = ScenarioFile
    /\ lc_env = LcEnv({3}, 0)
    /\ lc_pc = "returned"
    /\ Len(lc_sent) = 2

(* ------------------ properties of streams read by threads ------------- *)

\* the thread has left the loop over the reported indices
PastLoop(th) == tpc[th] \in { "store", "return", "done" }

\* the thread has left the statements that fill the cache
PastFill(th) == tpc[th] \in { "return", "done" }

\* C22: nothing guards the test of the cache and its filling. Every thread
\* that found no stream cached constructs a child for every index the
\* device reports, so that an index has as many children made for it as
\* threads passed the test, and each of these threads assigns the tpld-id
\* counter, which ends above every ps_tpldid read; when one thread alone
\* passed the test each reported index has exactly one child.
C22_EveryPopulatingThreadCreates ==
    /\ \A x \in StreamIndices :
          /\ made[x] <= Cardinality(populating)
          /\ x \notin DOMAIN dev_streams => made[x] = 0
    /\ (\A th \in populating : PastLoop(th))
          => \A x \in DOMAIN dev_streams : made[x] = Cardinality(populating)
    /\ \A th \in Threads :
          /\ th \notin populating => advances[th] = 0
          /\ (th \in populating /\ PastFill(th) /\ DOMAIN dev_streams # {})
                => /\ advances[th] = 1
                   /\ \A x \in DOMAIN dev_streams :
                         next_tpld_id > dev_streams[x]
          /\ (th \in populating /\ tpc[th] = "done")
                => got[th] = DOMAIN dev_streams
    /\ (Cardinality(populating) = 1 /\ \A th \in populating : PastLoop(th))
          => \A x \in DOMAIN dev_streams : made[x] = 1

\* two threads passed the test on a device with streams 0 and 1: two
\* children were made for each index and the counter was assigned twice
C22_Witness ==
    /\ populating = {1, 2}
    /\ tpc[1] = "done" /\ tpc[2] = "done"
    /\ DOMAIN dev_streams = {0, 1}
    /\ made[0] = 2 /\ made[1] = 2
    /\ advances[1] = 1 /\ advances[2] = 1
    /\ next_tpld_id = 11
    /\ ids_by_type(objects, "stream") = {0, 1}

====
